---- MODULE Spec2Model ----
(***************************************************************************)
(* A model of the file-search-store front end:                             *)
(*   - the API adapter (services/api.ts in its two copies) with its        *)
(*     response normalisation, as operators over a small model of JSON     *)
(*     values and JavaScript's truthiness, spread and property access;     *)
(*   - the FileStores component (store list, delete dialog);               *)
(*   - the Documents component (document list, upload, optimistic delete). *)
(* Three specifications share the variables: Spec (the adapter),           *)
(* SpecStores and SpecDocs. Each leaves the variables of the other two     *)
(* parts at their initial values.                                          *)
(***************************************************************************)
EXTENDS Integers, Sequences, FiniteSets, TLC

VARIABLES
  \* ---- API adapter (one call at a time) ----
  apiPc,        \* "idle" | "awaiting" (fetch in flight) | "done"
  apiCall,      \* [op, impl, config]: the operation, the copy of api.ts, the AppConfig
  apiRequests,  \* the HTTP requests the call has issued: sequence of [url, method]
  apiOutcome,   \* what fetch settled with (NoOutcome before)
  apiResult,    \* what the operation returned or threw (NoResult before)
  \* ---- FileStores component ----
  stores,                  \* useState stores: the local list, a sequence of store ids
  serverStores,            \* the stores the backend holds, in listing order
  storesLoad,              \* fetchStores calls in flight
  storesLoading,           \* useState loading of FileStores
  storesError,             \* useState error: the banner of a failed list load
  storeToDelete,           \* useState storeToDelete: NoStore or a store id
  deleteConfirmationText,  \* useState deleteConfirmationText
  isDeleting,              \* useState isDeleting
  isCheckingDocs,          \* useState isCheckingDocs
  docCount,                \* useState docCount: Null, Num(-1) or Num(count)
  countChecks,             \* listDocuments calls of openDeleteModal in flight
  checked,                 \* per store: what the last answered count check of it
                           \* returned since the dialog was last opened for it
  deleteCalls,             \* deleteStore calls in flight
  deleteLog,               \* the delete-store requests issued so far
  storesAlert,             \* the last alert() of the component
  opens,                   \* how often openDeleteModal has run
  \* ---- Documents component ----
  storeId,                 \* props.store.id
  docs,                    \* useState docs: the local list, a sequence of document ids
  serverDocs,              \* the documents the backend holds for the store
  loading,                 \* useState loading
  docToDelete,             \* useState docToDelete: NoDoc or a document id
  docIsDeleting,           \* useState isDeleting of Documents
  docDeletes,              \* deleteDocument calls in flight, each with its prevDocs
  docFetches,              \* fetchDocs calls in flight
  isUploadModalOpen,       \* useState isUploadModalOpen
  fileToUpload,            \* useState fileToUpload: NoFile or a file
  isUploading,             \* useState isUploading
  uploadCall,              \* the uploadDocument call in flight, or NoFile
  docEvent,                \* the handler of Documents that ran last
  docAlert,                \* the last alert() of the component
  uploads,                 \* how many uploads were submitted
  confirms,                \* how many document deletions were confirmed
  \* ---- FileStores component: the create form ----
  isCreating,              \* useState isCreating
  newStoreName,            \* useState newStoreName
  actionLoading,           \* useState actionLoading
  createCall,              \* the name of the createStore call in flight, or ""
  creates,                 \* how many stores were submitted for creation
  storesEvent,             \* the handler of FileStores that ran last
  docCounts,               \* useState docCounts: store id -> count, or undefined
  loadingCounts,           \* useState loadingCounts: store id -> a count is loading
  countCalls,              \* store id -> how many badge count requests are in flight
  listAnswer,              \* the listing the backend has sent for the oldest list request in flight
  \* ---- App: the view controller ----
  hardcodedConfig,         \* the constant HARDCODED_CONFIG of the build
  localStorageConfig,      \* localStorage[STORAGE_KEY]
  appConfig,               \* useState config
  view,                    \* useState view
  selectedStore,           \* useState selectedStore: NoStore (null) or a store
  isInitialized,           \* useState isInitialized
  formData,                \* Settings: useState formData
  formErrors,              \* Settings: the keys of useState errors that have a message
  edits,                   \* how many fields of the Settings form were changed
  settingsOrigin,          \* the view the Settings view was entered from
  appEvent,                \* the handler of App that ran last
  \* ---- Chat component ----
  chatDocUrl,              \* props.config.chatDocUrl
  chatStores,              \* useState stores of Chat
  selectedStoreId,         \* useState selectedStoreId
  messages,                \* useState messages: the transcript
  input,                   \* useState input
  chatLoading,             \* useState loading of Chat
  fetchingStores,          \* useState fetchingStores
  chatError,               \* useState error of Chat
  chatCall,                \* the chatWithStore call in flight, or NoChatCall
  sends                    \* how many messages were sent

apiVars == <<apiPc, apiCall, apiRequests, apiOutcome, apiResult>>

storesVars ==
  <<stores, serverStores, storesLoad, storesLoading, storesError, storeToDelete,
    deleteConfirmationText, isDeleting, isCheckingDocs, docCount, countChecks,
    checked, deleteCalls, deleteLog, storesAlert, opens>>

docsVars ==
  <<storeId, docs, serverDocs, loading, docToDelete, docIsDeleting, docDeletes,
    docFetches, isUploadModalOpen, fileToUpload, isUploading, uploadCall,
    docEvent, docAlert, uploads, confirms>>

createForm == <<isCreating, newStoreName, actionLoading, createCall, creates>>
createVars == <<createForm, storesEvent>>
countVars == <<docCounts, loadingCounts, countCalls>>
listVars == <<listAnswer>>

appVars ==
  <<hardcodedConfig, localStorageConfig, appConfig, view, selectedStore,
    isInitialized, formData, formErrors, edits, settingsOrigin, appEvent>>

chatVars ==
  <<chatDocUrl, chatStores, selectedStoreId, messages, input, chatLoading,
    fetchingStores, chatError, chatCall, sends>>

vars == <<apiVars, storesVars, createVars, docsVars, countVars, listVars, appVars, chatVars>>

(***************************************************************************)
(* Bounds of the model.                                                    *)
(***************************************************************************)
\* longest store array in a list-stores response
MaxStores == 2
\* longest customMetadata array of a raw document
MaxMeta == 2
\* how often the delete dialog of the store list is opened
MaxOpens == 3
\* the largest document count a count check returns
MaxCount == 1
\* deleteStore calls in flight for one store
MaxInFlight == 1
\* uploads submitted in the Documents view
MaxUploads == 1
\* document deletions confirmed in the Documents view
MaxConfirms == 2
\* stores submitted for creation in the store list
MaxCreates == 2
\* fields of the Settings form changed by the user
MaxEdits == 2
\* chat messages sent
MaxSends == 2

(***************************************************************************)
(* JSON values and the JavaScript operations the adapter applies to them.  *)
(***************************************************************************)
Undefined == [t |-> "undefined"]
Null == [t |-> "null"]
Str(s) == [t |-> "string", v |-> s]
Num(n) == [t |-> "number", v |-> n]
Arr(s) == [t |-> "array", v |-> s]
Obj(f) == [t |-> "object", v |-> f]

\* the object with no own property
EmptyFields == [k \in {} |-> Undefined]

\* ToBoolean: undefined, null, "" and 0 are falsy; objects and arrays are truthy
Truthy(x) ==
  CASE x.t = "undefined" -> FALSE
    [] x.t = "null" -> FALSE
    [] x.t = "string" -> x.v # ""
    [] x.t = "number" -> x.v # 0
    [] OTHER -> TRUE

\* a || b
JsOr(a, b) == IF Truthy(a) THEN a ELSE b

\* x.k throws a TypeError exactly when x is null or undefined
Readable(x) == x.t \notin {"undefined", "null"}

\* x.k for a readable x: an own property of an object, undefined otherwise
\* (the keys read here are no property of a string, number or array)
Get(x, k) ==
  IF x.t = "object" /\ k \in DOMAIN x.v THEN x.v[k] ELSE Undefined

\* Array.isArray(x)
IsArray(x) == x.t = "array"

\* the own enumerable properties {...x} copies: those of an object; none of
\* null, undefined or a number
SpreadOf(x) == IF x.t = "object" THEN x.v ELSE EmptyFields

\* {...a, ...b}: a later property overrides an earlier one of the same key
Merge(a, b) ==
  [k \in (DOMAIN a) \cup (DOMAIN b) |-> IF k \in DOMAIN b THEN b[k] ELSE a[k]]

\* s.trim() for the texts of the model: leading and trailing spaces removed
RECURSIVE Trim(_)
Trim(s) ==
  IF Len(s) = 0 THEN s
  ELSE IF SubSeq(s, 1, 1) = " " THEN Trim(SubSeq(s, 2, Len(s)))
  ELSE IF SubSeq(s, Len(s), Len(s)) = " " THEN Trim(SubSeq(s, 1, Len(s) - 1))
  ELSE s

\* results of an operation: a returned value or a thrown error
Ok(v) == [ok |-> TRUE, value |-> v]
Fail(name, message) == [ok |-> FALSE, error |-> [name |-> name, message |-> message]]

NullDeref == Fail("TypeError", "Cannot read properties of null")
NotAFunction == Fail("TypeError", "map is not a function")

\* what items.map(callback) gives when rs[i] is the result of the callback
\* on the i-th item: the first throw of a callback, in index order, is the
\* throw of map; else the array of the values
MapResult(rs) ==
  LET bad == {i \in 1..Len(rs) : ~rs[i].ok}
  IN IF bad # {}
       THEN rs[CHOOSE i \in bad : \A j \in bad : i <= j]
       ELSE Ok(Arr([i \in 1..Len(rs) |-> rs[i].value]))

(***************************************************************************)
(* JSON.stringify on the values of the model. Keys are written in the      *)
(* fixed order KeyOrder (a parsed object keeps the order of the response   *)
(* text; the model's objects are unordered).                               *)
(***************************************************************************)
KeyOrder ==
  <<"output", "text", "answer", "message", "fileSearchStores", "data",
    "documents", "id", "name", "displayName", "customMetadata", "key",
    "stringValue", "foo">>

RECURSIVE JSONstringify(_)
RECURSIVE StringifyFields(_, _, _)
RECURSIVE StringifyItems(_, _)

\* the "k":v members of object fields f for the keys KeyOrder[i..], comma-joined
StringifyFields(f, i, first) ==
  IF i > Len(KeyOrder) THEN ""
  ELSE IF KeyOrder[i] \in DOMAIN f /\ f[KeyOrder[i]].t # "undefined"
    THEN (IF first THEN "" ELSE ",") \o "\"" \o KeyOrder[i] \o "\":"
           \o JSONstringify(f[KeyOrder[i]]) \o StringifyFields(f, i + 1, FALSE)
    ELSE StringifyFields(f, i + 1, first)

StringifyItems(s, i) ==
  IF i > Len(s) THEN ""
  ELSE (IF i = 1 THEN "" ELSE ",") \o JSONstringify(s[i]) \o StringifyItems(s, i + 1)

JSONstringify(x) ==
  CASE x.t = "null" -> "null"
    [] x.t = "string" -> "\"" \o x.v \o "\""
    [] x.t = "number" -> ToString(x.v)
    [] x.t = "array" -> "[" \o StringifyItems(x.v, 1) \o "]"
    [] x.t = "object" -> "{" \o StringifyFields(x.v, 1, TRUE) \o "}"

(***************************************************************************)
(* HTTP: what a fetch settles with, and the two ways the copies of api.ts  *)
(* read a JSON body.                                                       *)
(***************************************************************************)
\* a fetch rejected by the network layer: TypeError('Failed to fetch')
FetchRejected == [kind |-> "rejected"]
\* a response: ok is status in 200..299; body is what the server sent
Response(ok, body) == [kind |-> "response", ok |-> ok, body |-> body]

\* response bodies: no text, text that is not JSON, the text of a JSON value
EmptyBody == [text |-> "empty", json |-> Undefined]
InvalidBody == [text |-> "invalid", json |-> Undefined]
JsonBody(v) == [text |-> "json", json |-> v]

TypeErrorFailedToFetch == Fail("TypeError", "Failed to fetch")

\* await response.json(): a SyntaxError on an empty or non-JSON body
responseJson(body) ==
  IF body.text = "json" THEN Ok(body.json)
  ELSE Fail("SyntaxError", "Unexpected token or end of JSON input")

\* apiService.safeJsonParse: {} for an empty body, Error('Invalid JSON
\* response: ...') for text JSON.parse rejects
safeJsonParse(body) ==
  IF body.text = "empty" THEN Ok(Obj(EmptyFields))
  ELSE IF body.text = "json" THEN Ok(body.json)
  ELSE Fail("Error", "Invalid JSON response")

\* the two copies of the adapter: src/services/api.ts reads response.json(),
\* src/unnamed/part_000 reads safeJsonParse(response)
Impls == {"api.ts", "part_000"}

parseBody(impl, body) ==
  IF impl = "part_000" THEN safeJsonParse(body) ELSE responseJson(body)

\* the URL a fetch(url) request goes to: the empty string is a relative
\* reference and resolves to the page's own URL
PageUrl == "https://app.example/"
ResolveUrl(url) == IF url = "" THEN PageUrl ELSE url
Request(url, method) == [url |-> ResolveUrl(url), method |-> method]

(***************************************************************************)
(* listStores: normalisation of the parsed response.                       *)
(***************************************************************************)
\* Math.random().toString(36) for two values Math.random() can return:
\* 0.5 ("0.i") and a value with a full-length expansion
MathRandomToString36 == {"0.i", "0.4fzyo82mvyr"}

\* s.substring(7): the characters after the first seven
Substring7(s) == IF Len(s) <= 7 THEN "" ELSE SubSeq(s, 8, Len(s))

\* shapes (1) and (2): { id: store.name, name: store.displayName ||
\* store.name, createdAt: store.createTime, ...store }: the spread comes last
mapFileSearchStore(store) ==
  IF ~Readable(store) THEN NullDeref
  ELSE Ok(Obj(Merge([id |-> Get(store, "name"),
                     name |-> JsOr(Get(store, "displayName"), Get(store, "name")),
                     createdAt |-> Get(store, "createTime")],
                    SpreadOf(store))))

\* shape (3): { ...item, id: item.id || item.name || <random token>,
\* name: item.displayName || item.name || 'Untitled Store',
\* createdAt: item.createTime || item.createdAt }: the spread comes first
mapStoreItem(item, rnd) ==
  IF ~Readable(item) THEN NullDeref
  ELSE Ok(Obj(Merge(SpreadOf(item),
                    [id |-> JsOr(JsOr(Get(item, "id"), Get(item, "name")),
                                 Str(Substring7(rnd))),
                     name |-> JsOr(JsOr(Get(item, "displayName"), Get(item, "name")),
                                   Str("Untitled Store")),
                     createdAt |-> JsOr(Get(item, "createTime"),
                                        Get(item, "createdAt"))])))

\* the body of listStores after the JSON is parsed; rnds[i] is what
\* Math.random().toString(36) gives for the i-th item
listStores_normalise(data, rnds) ==
  IF ~Readable(data) THEN NullDeref
  ELSE IF Truthy(Get(data, "fileSearchStores")) /\ IsArray(Get(data, "fileSearchStores"))
    THEN LET raw == Get(data, "fileSearchStores").v
         IN MapResult([i \in 1..Len(raw) |-> mapFileSearchStore(raw[i])])
  ELSE IF IsArray(data) /\ Len(data.v) > 0 /\ ~Readable(data.v[1])
    THEN NullDeref
  ELSE IF IsArray(data) /\ Len(data.v) > 0 /\ Truthy(Get(data.v[1], "fileSearchStores"))
    THEN LET raw == Get(data.v[1], "fileSearchStores")
         IN IF ~IsArray(raw) THEN NotAFunction
            ELSE MapResult([i \in 1..Len(raw.v) |-> mapFileSearchStore(raw.v[i])])
  ELSE LET items == IF IsArray(data) THEN data ELSE JsOr(Get(data, "data"), Arr(<<>>))
       IN IF ~IsArray(items) THEN NotAFunction
          ELSE MapResult([i \in 1..Len(items.v) |-> mapStoreItem(items.v[i], rnds[i])])

\* the catch block of listStores: a TypeError 'Failed to fetch' is rethrown
\* as the network/CORS Error, anything else is rethrown as it is
listStores_catch(r) ==
  IF ~r.ok /\ r.error.name = "TypeError" /\ r.error.message = "Failed to fetch"
    THEN Fail("Error", "Network error: Unable to connect. Please check CORS settings on your webhook.")
    ELSE r

\* listStores from the settled fetch on
listStores_settle(impl, outcome, rnds) ==
  listStores_catch(
    IF outcome.kind = "rejected" THEN TypeErrorFailedToFetch
    ELSE IF ~outcome.ok THEN Fail("Error", "Failed to fetch stores")
    ELSE LET parsed == parseBody(impl, outcome.body)
         IN IF ~parsed.ok THEN parsed
            ELSE listStores_normalise(parsed.value, rnds))

(***************************************************************************)
(* listDocuments: normalisation of the parsed response, in its two copies. *)
(***************************************************************************)
\* doc.customMetadata.find(m => m.key === 'nombreFile') on the entries from
\* index i on: the first entry with that key (Undefined when there is none);
\* a null entry met before it throws
RECURSIVE findNombreFile(_, _)
findNombreFile(meta, i) ==
  IF i > Len(meta) THEN Ok(Undefined)
  ELSE IF ~Readable(meta[i]) THEN NullDeref
  ELSE IF Get(meta[i], "key") = Str("nombreFile") THEN Ok(meta[i])
  ELSE findNombreFile(meta, i + 1)

\* let customName = ''; set from the found entry's stringValue when the entry
\* and the stringValue are truthy (src/unnamed/part_000)
customNameOf(doc) ==
  IF Truthy(Get(doc, "customMetadata")) /\ IsArray(Get(doc, "customMetadata"))
    THEN LET nameField == findNombreFile(Get(doc, "customMetadata").v, 1)
         IN IF ~nameField.ok THEN nameField
            ELSE IF Truthy(nameField.value) /\ Truthy(Get(nameField.value, "stringValue"))
              THEN Ok(Get(nameField.value, "stringValue"))
              ELSE Ok(Str(""))
    ELSE Ok(Str(""))

\* { ...doc, id: doc.id || doc.name, name: customName || doc.displayName ||
\* doc.name || 'Untitled Document', size: doc.sizeBytes || doc.size,
\* mimeType: doc.mimeType } for a readable doc
docRecord(doc, customName) ==
  Obj(Merge(SpreadOf(doc),
            [id |-> JsOr(Get(doc, "id"), Get(doc, "name")),
             name |-> JsOr(JsOr(JsOr(customName, Get(doc, "displayName")),
                                Get(doc, "name")),
                           Str("Untitled Document")),
             size |-> JsOr(Get(doc, "sizeBytes"), Get(doc, "size")),
             mimeType |-> Get(doc, "mimeType")]))

\* the map callback of src/unnamed/part_000
mapDocument_part000(doc) ==
  IF ~Readable(doc) THEN NullDeref
  ELSE LET customName == customNameOf(doc)
       IN IF ~customName.ok THEN customName
          ELSE Ok(docRecord(doc, customName.value))

\* the map callback of src/services/api.ts: no custom name
mapDocument_api(doc) ==
  IF ~Readable(doc) THEN NullDeref
  ELSE Ok(docRecord(doc, Str("")))

\* const rawDocs = Array.isArray(data) ? data : (data.documents || data.data
\* || []); return rawDocs.map(...)
listDocuments_normalise(impl, data) ==
  IF ~Readable(data) THEN NullDeref
  ELSE LET rawDocs == IF IsArray(data) THEN data
                      ELSE JsOr(JsOr(Get(data, "documents"), Get(data, "data")),
                                Arr(<<>>))
       IN IF ~IsArray(rawDocs) THEN NotAFunction
          ELSE MapResult([i \in 1..Len(rawDocs.v) |->
                            IF impl = "part_000" THEN mapDocument_part000(rawDocs.v[i])
                            ELSE mapDocument_api(rawDocs.v[i])])

\* listDocuments from the settled fetch on (no try/catch around it)
listDocuments_settle(impl, outcome) ==
  IF outcome.kind = "rejected" THEN TypeErrorFailedToFetch
  ELSE IF ~outcome.ok THEN Fail("Error", "Failed to fetch documents")
  ELSE LET parsed == parseBody(impl, outcome.body)
       IN IF ~parsed.ok THEN parsed
          ELSE listDocuments_normalise(impl, parsed.value)

(***************************************************************************)
(* chatWithStore: extraction of the answer.                                *)
(***************************************************************************)
\* a faulty variant of chatContent that never unwraps an array
chatContent_noUnwrap(data) == data

\* const content = Array.isArray(data) ? data[0] : data
chatContent(data) ==
  IF IsArray(data) THEN (IF Len(data.v) > 0 THEN data.v[1] ELSE Undefined)
  ELSE data

\* return content.output || content.text || content.answer ||
\* content.message || JSON.stringify(content)
chatWithStore_extract(data) ==
  LET content == chatContent(data)
  IN IF ~Readable(content) THEN NullDeref
     ELSE Ok(JsOr(JsOr(JsOr(JsOr(Get(content, "output"), Get(content, "text")),
                            Get(content, "answer")),
                       Get(content, "message")),
                  Str(JSONstringify(content))))

chatWithStore_settle(impl, outcome) ==
  IF outcome.kind = "rejected" THEN TypeErrorFailedToFetch
  ELSE IF ~outcome.ok THEN Fail("Error", "Chat request failed")
  ELSE LET parsed == parseBody(impl, outcome.body)
       IN IF ~parsed.ok THEN parsed
          ELSE chatWithStore_extract(parsed.value)

(***************************************************************************)
(* The operations that read no JSON.                                       *)
(***************************************************************************)
createStore_settle(outcome) ==
  IF outcome.kind = "rejected" THEN TypeErrorFailedToFetch
  ELSE IF ~outcome.ok THEN Fail("Error", "Failed to create store")
  ELSE Ok(Undefined)

\* reads response.text() for the log, then tests response.ok
deleteStore_settle(outcome) ==
  IF outcome.kind = "rejected" THEN TypeErrorFailedToFetch
  ELSE IF ~outcome.ok THEN Fail("Error", "Failed to delete store")
  ELSE Ok(Undefined)

uploadDocument_settle(outcome) ==
  IF outcome.kind = "rejected" THEN TypeErrorFailedToFetch
  ELSE IF ~outcome.ok THEN Fail("Error", "Failed to upload document")
  ELSE Ok(Undefined)

deleteDocument_settle(outcome) ==
  IF outcome.kind = "rejected" THEN TypeErrorFailedToFetch
  ELSE IF ~outcome.ok THEN Fail("Error", "Failed to delete document")
  ELSE Ok(Undefined)

(***************************************************************************)
(* The configuration and what each operation does before its fetch.        *)
(***************************************************************************)
Fields ==
  {"listStoresUrl", "createStoreUrl", "deleteStoreUrl", "listDocsUrl",
   "uploadDocUrl", "deleteDocUrl", "chatDocUrl"}

\* App.tsx defaultEmptyConfig, and a configuration with every endpoint set
defaultEmptyConfig == [f \in Fields |-> ""]
FullConfig == [f \in Fields |-> "https://n8n.example/webhook/" \o f]
Configs == {defaultEmptyConfig, FullConfig}

Ops ==
  {"listStores", "createStore", "deleteStore", "listDocuments",
   "uploadDocument", "deleteDocument", "chatWithStore"}

\* the endpoint an operation fetches and the method it uses
EndpointOf(op) ==
  CASE op = "listStores" -> "listStoresUrl"
    [] op = "createStore" -> "createStoreUrl"
    [] op = "deleteStore" -> "deleteStoreUrl"
    [] op = "listDocuments" -> "listDocsUrl"
    [] op = "uploadDocument" -> "uploadDocUrl"
    [] op = "deleteDocument" -> "deleteDocUrl"
    [] op = "chatWithStore" -> "chatDocUrl"

MethodOf(op) == IF op = "listStores" THEN "GET" ELSE "POST"

\* what an operation does before any fetch: NoResult when it goes on to
\* fetch, else the value it returns or the error it throws at once
NoResult == [ok |-> FALSE, error |-> [name |-> "none", message |-> "pending"]]

\* a faulty variant of listStores_guard that lacks the test of the endpoint
listStores_guard_absent(config) == NoResult

\* if (!config.listStoresUrl) return []
listStores_guard(config) ==
  IF config["listStoresUrl"] = "" THEN Ok(Arr(<<>>)) ELSE NoResult

\* if (!config.listDocsUrl) throw new Error('List Documents URL is not configured')
listDocuments_guard(config) ==
  IF config["listDocsUrl"] = ""
    THEN Fail("Error", "List Documents URL is not configured") ELSE NoResult

\* if (!config.chatDocUrl) throw new Error('Chat URL is not configured')
chatWithStore_guard(config) ==
  IF config["chatDocUrl"] = ""
    THEN Fail("Error", "Chat URL is not configured") ELSE NoResult

\* createStore, deleteStore, uploadDocument and deleteDocument test nothing
\* before calling fetch(config.<endpoint>, ...)
GuardOf(op, config) ==
  CASE op = "listStores" -> listStores_guard(config)
    [] op = "listDocuments" -> listDocuments_guard(config)
    [] op = "chatWithStore" -> chatWithStore_guard(config)
    [] OTHER -> NoResult

(***************************************************************************)
(* The responses the model feeds the adapter.                              *)
(***************************************************************************)
\* the sequences over S of length at most n
SeqsUpTo(S, n) == UNION {[1..k -> S] : k \in 0..n}

\* the object whose properties are the fields of record c that are not Undefined
ObjFrom(c) == Obj([k \in {j \in DOMAIN c : c[j] # Undefined} |-> c[k]])

\* raw stores: id, name and displayName present or not, displayName maybe ""
RawStores ==
  {ObjFrom([id |-> i, name |-> n, displayName |-> d]) :
     i \in {Undefined, Str("id1")},
     n \in {Undefined, Str("fileSearchStores/abc")},
     d \in {Undefined, Str(""), Str("Marketing")}}

\* array elements: raw stores, null, and a value that is no object
StoreItems == RawStores \cup {Null, Num(7)}
StoreArrays == SeqsUpTo(StoreItems, MaxStores)

\* shape (1), shape (2), shape (3) as a bare array and as { data: [...] }
Shape1(a) == Obj([fileSearchStores |-> Arr(a)])
Shape2(a) == Arr(<<Obj([fileSearchStores |-> Arr(a)])>>)
Shape3Array(a) == Arr(a)
Shape3Data(a) == Obj([data |-> Arr(a)])

\* values of no expected shape
OddData ==
  {Null, Obj(EmptyFields), Str("x"), Num(0), Arr(<<>>), Arr(<<Null>>),
   Arr(<<Num(7)>>), Obj([fileSearchStores |-> Str("x")]),
   Arr(<<Obj([fileSearchStores |-> Str("x")])>>),
   Obj([data |-> Str("x")]), Obj([documents |-> Num(5)]),
   Obj([foo |-> Str("bar")])}

ListStoresData ==
  {Shape1(a) : a \in StoreArrays} \cup {Shape2(a) : a \in StoreArrays}
    \cup {Shape3Array(a) : a \in StoreArrays}
    \cup {Shape3Data(a) : a \in StoreArrays} \cup OddData

\* customMetadata entries: { key, stringValue } and null
MetaEntries ==
  {Obj([key |-> Str(k), stringValue |-> Str(x)]) :
     k \in {"nombreFile", "other"}, x \in {"", "X"}} \cup {Null}

\* raw documents
RawDocs ==
  {ObjFrom([id |-> i, name |-> n, displayName |-> d, customMetadata |-> m]) :
     i \in {Undefined, Str("d1")},
     n \in {Undefined, Str("documents/x")},
     d \in {Undefined, Str("D")},
     m \in {Undefined, Str("nombreFile")}
             \cup {Arr(a) : a \in SeqsUpTo(MetaEntries, MaxMeta)}}

PlainDoc == Obj([name |-> Str("documents/y"), displayName |-> Str("E")])

\* document arrays: none, one raw document or null, or one followed by a
\* plain document or null
DocArrays ==
  {<<>>} \cup {<<d>> : d \in RawDocs \cup {Null}}
    \cup {<<d, e>> : d \in RawDocs \cup {Null}, e \in {PlainDoc, Null}}

ListDocumentsData ==
  {Arr(a) : a \in DocArrays} \cup {Obj([documents |-> Arr(a)]) : a \in DocArrays}
    \cup {Obj([data |-> Arr(a)]) : a \in DocArrays} \cup OddData

\* chat responses: an object with some of the four answer fields, each
\* absent, "" or a text of its own; bare, or first in an array
ChatObjects ==
  {ObjFrom([output |-> o, text |-> x, answer |-> a, message |-> m]) :
     o \in {Undefined, Str(""), Str("Answer text")},
     x \in {Undefined, Str(""), Str("the text")},
     a \in {Undefined, Str(""), Str("the answer")},
     m \in {Undefined, Str(""), Str("the message")}}

ChatData ==
  ChatObjects \cup {Arr(<<c>>) : c \in ChatObjects}
    \cup {Arr(<<c, Obj([output |-> Str("second")])>>) : c \in ChatObjects}
    \cup OddData

\* what the fetch of an operation can settle with
OutcomesOf(op) ==
  {FetchRejected, Response(FALSE, EmptyBody), Response(FALSE, InvalidBody),
   Response(TRUE, EmptyBody), Response(TRUE, InvalidBody)}
    \cup {Response(TRUE, JsonBody(d)) :
            d \in CASE op = "listStores" -> ListStoresData
                    [] op = "listDocuments" -> ListDocumentsData
                    [] op = "chatWithStore" -> ChatData
                    [] OTHER -> {Obj(EmptyFields)}}

(***************************************************************************)
(* The adapter as a state machine: one call at a time, from the call to    *)
(* the value returned or the error thrown.                                 *)
(***************************************************************************)
NoCall == [op |-> "none", impl |-> "none", config |-> defaultEmptyConfig]
NoOutcome == [kind |-> "none"]

ApiInit ==
  /\ apiPc = "idle"
  /\ apiCall = NoCall
  /\ apiRequests = <<>>
  /\ apiOutcome = NoOutcome
  /\ apiResult = NoResult

\* the call of an operation up to its fetch: the guard returns or throws at
\* once, or fetch(config[endpoint], {method}) is issued
Invoke(op, impl, config) ==
  /\ apiPc = "idle"
  /\ apiCall' = [op |-> op, impl |-> impl, config |-> config]
  /\ apiOutcome' = NoOutcome
  /\ IF GuardOf(op, config) # NoResult
       THEN /\ apiPc' = "done"
            /\ apiRequests' = <<>>
            /\ apiResult' = GuardOf(op, config)
       ELSE /\ apiPc' = "awaiting"
            /\ apiRequests' = <<Request(config[EndpointOf(op)], MethodOf(op))>>
            /\ apiResult' = NoResult
  /\ UNCHANGED <<storesVars, createVars, docsVars, countVars, listVars, appVars, chatVars>>

\* the fetch of the call in flight settles and the operation runs to its end
Settle(op, outcome, result) ==
  /\ apiPc = "awaiting"
  /\ apiCall.op = op
  /\ apiPc' = "done"
  /\ apiOutcome' = outcome
  /\ apiResult' = result
  /\ UNCHANGED <<apiCall, apiRequests, storesVars, createVars, docsVars, countVars, listVars, appVars, chatVars>>

listStores ==
  /\ apiPc = "idle"
  /\ \E impl \in Impls, config \in Configs : Invoke("listStores", impl, config)
createStore ==
  /\ apiPc = "idle"
  /\ \E impl \in Impls, config \in Configs : Invoke("createStore", impl, config)
deleteStore ==
  /\ apiPc = "idle"
  /\ \E impl \in Impls, config \in Configs : Invoke("deleteStore", impl, config)
listDocuments ==
  /\ apiPc = "idle"
  /\ \E impl \in Impls, config \in Configs : Invoke("listDocuments", impl, config)
uploadDocument ==
  /\ apiPc = "idle"
  /\ \E impl \in Impls, config \in Configs : Invoke("uploadDocument", impl, config)
deleteDocument ==
  /\ apiPc = "idle"
  /\ \E impl \in Impls, config \in Configs : Invoke("deleteDocument", impl, config)
chatWithStore ==
  /\ apiPc = "idle"
  /\ \E impl \in Impls, config \in Configs : Invoke("chatWithStore", impl, config)

listStores_settles ==
  /\ apiPc = "awaiting"
  /\ apiCall.op = "listStores"
  /\ \E outcome \in OutcomesOf("listStores"),
        rnds \in [1..MaxStores -> MathRandomToString36] :
       Settle("listStores", outcome, listStores_settle(apiCall.impl, outcome, rnds))
createStore_settles ==
  /\ apiPc = "awaiting"
  /\ apiCall.op = "createStore"
  /\ \E outcome \in OutcomesOf("createStore") :
       Settle("createStore", outcome, createStore_settle(outcome))
deleteStore_settles ==
  /\ apiPc = "awaiting"
  /\ apiCall.op = "deleteStore"
  /\ \E outcome \in OutcomesOf("deleteStore") :
       Settle("deleteStore", outcome, deleteStore_settle(outcome))
listDocuments_settles ==
  /\ apiPc = "awaiting"
  /\ apiCall.op = "listDocuments"
  /\ \E outcome \in OutcomesOf("listDocuments") :
       Settle("listDocuments", outcome, listDocuments_settle(apiCall.impl, outcome))
uploadDocument_settles ==
  /\ apiPc = "awaiting"
  /\ apiCall.op = "uploadDocument"
  /\ \E outcome \in OutcomesOf("uploadDocument") :
       Settle("uploadDocument", outcome, uploadDocument_settle(outcome))
deleteDocument_settles ==
  /\ apiPc = "awaiting"
  /\ apiCall.op = "deleteDocument"
  /\ \E outcome \in OutcomesOf("deleteDocument") :
       Settle("deleteDocument", outcome, deleteDocument_settle(outcome))
chatWithStore_settles ==
  /\ apiPc = "awaiting"
  /\ apiCall.op = "chatWithStore"
  /\ \E outcome \in OutcomesOf("chatWithStore") :
       Settle("chatWithStore", outcome, chatWithStore_settle(apiCall.impl, outcome))

\* the caller has the result; the adapter is ready for the next call
ApiReturn ==
  /\ apiPc = "done"
  /\ apiPc' = "idle"
  /\ apiCall' = NoCall
  /\ apiRequests' = <<>>
  /\ apiOutcome' = NoOutcome
  /\ apiResult' = NoResult
  /\ UNCHANGED <<storesVars, createVars, docsVars, countVars, listVars, appVars, chatVars>>

(***************************************************************************)
(* The FileStores component: the store list and its delete dialog.         *)
(***************************************************************************)
\* the stores of the backend, as listStores normalises them; the second has
\* no displayName
StoreA == [id |-> "fileSearchStores/a", name |-> "fileSearchStores/a", displayName |-> "Alpha"]
StoreB == [id |-> "fileSearchStores/b", name |-> "Beta", displayName |-> ""]
\* the ids the backend gives the stores created later, and the names the
\* user may type into the create form (one is blank)
CreatedIds == <<"fileSearchStores/c", "fileSearchStores/d", "fileSearchStores/e">>
NewStoreNames == {"Gamma", " Delta ", " "}
\* the store the backend holds after the k-th creation, as listStores
\* normalises it
CreatedStore(k, name) == [id |-> CreatedIds[k], name |-> CreatedIds[k], displayName |-> name]
AllStores ==
  {StoreA, StoreB} \cup
    {CreatedStore(k, n) : k \in 1..MaxCreates, n \in {m \in NewStoreNames : Trim(m) # ""}}
StoreIds == {st.id : st \in AllStores}
NoStore == [id |-> "", name |-> "", displayName |-> ""]
\* no response of listStores is under way
NoAnswer == [sent |-> FALSE, data |-> <<>>]

\* const getDisplayName = (store) => store.displayName || store.name
getDisplayName(store) ==
  IF store.displayName # "" THEN store.displayName ELSE store.name

\* what the user may type into the confirmation input
TypedTexts == {getDisplayName(st) : st \in {StoreA, StoreB}} \cup {"Alph"}

InSeq(x, q) == \E i \in 1..Len(q) : q[i] = x
HasStore(list, id) == \E i \in 1..Len(list) : list[i].id = id

StoresEvent(kind, id) == [kind |-> kind, id |-> id]

StoresInit ==
  /\ stores = <<>>
  /\ serverStores = <<StoreA, StoreB>>
  /\ storesLoad = 1            \* the mount effect has called fetchStores
  /\ storesLoading = TRUE
  /\ storesError = ""
  /\ storeToDelete = NoStore
  /\ deleteConfirmationText = ""
  /\ isDeleting = FALSE
  /\ isCheckingDocs = FALSE
  /\ docCount = Null
  /\ countChecks = [i \in StoreIds |-> 0]
  /\ checked = [i \in StoreIds |-> Null]
  /\ deleteCalls = [i \in StoreIds |-> 0]
  /\ deleteLog = {}
  /\ storesAlert = ""
  /\ opens = 0
  /\ isCreating = FALSE
  /\ newStoreName = ""
  /\ actionLoading = FALSE
  /\ createCall = ""
  /\ creates = 0
  /\ storesEvent = StoresEvent("mount", "")
  /\ docCounts = [i \in StoreIds |-> Undefined]
  /\ loadingCounts = [i \in StoreIds |-> FALSE]
  /\ countCalls = [i \in StoreIds |-> 0]
  /\ listAnswer = NoAnswer

\* if (loading && stores.length === 0) the component renders the spinner only
StoresRendered == ~(storesLoading /\ Len(stores) = 0)

\* the Modal is rendered: isOpen={!!storeToDelete}
DeleteModalOpen == StoresRendered /\ storeToDelete # NoStore

\* the branch of the Modal body that holds the confirmation input and the
\* "Delete Permanently" button: the last of isCheckingDocs ? ... :
\* docCount === -1 ? ... : docCount && docCount > 0 ? ... : (form)
DeleteFormShown ==
  /\ DeleteModalOpen
  /\ ~isCheckingDocs
  /\ docCount # Num(-1)
  /\ ~(Truthy(docCount) /\ docCount.v > 0)

\* a variant of DeleteButtonEnabled that does not compare the typed text
DeleteButtonEnabled_anyText ==
  /\ storeToDelete # NoStore
  /\ ~isDeleting

\* disabled={!storeToDelete || deleteConfirmationText !==
\* getDisplayName(storeToDelete) || isDeleting}
DeleteButtonEnabled ==
  /\ storeToDelete # NoStore
  /\ deleteConfirmationText = getDisplayName(storeToDelete)
  /\ ~isDeleting

\* a variant of fetchCounts_skips that requests a count whatever is loading
fetchCounts_skips_never(isLoading) == FALSE

\* whether the count effect leaves out a store: if (loadingCounts[store.id])
\* return
fetchCounts_skips(isLoading) == isLoading

\* the effect on [stores, config], which runs after every setStores: for
\* each store of the new list that it does not skip, loadingCounts[id] is
\* set and listDocuments(config, id) is called. It returns at once for the
\* empty list
fetchCounts(list) ==
  /\ loadingCounts' =
       [id \in StoreIds |-> loadingCounts[id] \/ HasStore(list, id)]
  /\ countCalls' =
       [id \in StoreIds |->
          IF HasStore(list, id) /\ ~fetchCounts_skips(loadingCounts[id])
            THEN countCalls[id] + 1 ELSE countCalls[id]]
  /\ UNCHANGED docCounts

\* the count effect from the answer of listDocuments on: setDocCounts on
\* success, nothing on failure; finally loadingCounts[id] = false
fetchCounts_settles(id, answer) ==
  /\ countCalls[id] > 0
  /\ countCalls' = [countCalls EXCEPT ![id] = @ - 1]
  /\ docCounts' = IF answer.ok THEN [docCounts EXCEPT ![id] = Num(answer.count)]
                   ELSE docCounts
  /\ loadingCounts' = [loadingCounts EXCEPT ![id] = FALSE]
  /\ storesEvent' = StoresEvent("fetchCounts_settles", "")
  /\ UNCHANGED createForm
  /\ UNCHANGED <<storesVars, apiVars, docsVars, listVars, appVars, chatVars>>

\* what a settled fetchStores sets stores to: setStores(data)
fetchedStores(data) == data

\* the backend answers the oldest list request in flight with the stores it
\* holds; the response is under way to the browser
listStores_answered ==
  /\ storesLoad > 0
  /\ ~listAnswer.sent
  /\ listAnswer' = [sent |-> TRUE, data |-> serverStores]
  /\ UNCHANGED <<storesVars, createVars, apiVars, docsVars, countVars, appVars, chatVars>>

\* the listing a settling fetchStores receives: the response under way, or
\* the stores the backend holds when it answers at this moment
listStores_data == IF listAnswer.sent THEN listAnswer.data ELSE serverStores

\* fetchStores from the answer of listStores on
fetchStores_settles ==
  /\ storesLoad > 0
  /\ storesLoad' = storesLoad - 1
  /\ storesLoading' = FALSE
  /\ listAnswer' = NoAnswer
  /\ \/ /\ stores' = fetchedStores(listStores_data)
        /\ fetchCounts(stores')
        /\ storesEvent' = StoresEvent("fetchStores_ok", "")
        /\ UNCHANGED storesError
     \/ /\ storesError' = "Failed to fetch stores"
        /\ storesEvent' = StoresEvent("fetchStores_failed", "")
        /\ UNCHANGED <<stores, countVars>>
  /\ UNCHANGED <<serverStores, storeToDelete, deleteConfirmationText, isDeleting,
                 isCheckingDocs, docCount, countChecks, checked, deleteCalls,
                 deleteLog, storesAlert, opens>>
  /\ UNCHANGED <<createForm, apiVars, docsVars, appVars, chatVars>>

\* openDeleteModal up to its await: the trash button of a store card, which
\* the backdrop of an open Modal covers
openDeleteModal(store) ==
  /\ StoresRendered
  /\ InSeq(store, stores)
  /\ storeToDelete = NoStore
  /\ opens < MaxOpens
  /\ opens' = opens + 1
  /\ storeToDelete' = store
  /\ deleteConfirmationText' = ""
  /\ docCount' = Null
  /\ isCheckingDocs' = TRUE
  /\ countChecks' = [countChecks EXCEPT ![store.id] = @ + 1]
  /\ checked' = [checked EXCEPT ![store.id] = Null]
  /\ UNCHANGED <<stores, serverStores, storesLoad, storesError, isDeleting,
                 deleteCalls, deleteLog, storesAlert>>
  /\ storesEvent' = StoresEvent("openDeleteModal", store.id)
  /\ UNCHANGED <<storesLoading, createForm, apiVars, docsVars, countVars, listVars, appVars, chatVars>>

\* a variant of countResult that takes a failed check for an empty store
countResult_failureAsEmpty(answer) == IF answer.ok THEN Num(answer.count) ELSE Num(0)

\* what the count check settles to: docs.length, or -1 when listDocuments threw
countResult(answer) == IF answer.ok THEN Num(answer.count) ELSE Num(-1)

\* openDeleteModal from the answer of listDocuments(config, store.id) on:
\* setDocCount(docs.length) or setDocCount(-1); finally setIsCheckingDocs(false)
openDeleteModal_settles(id, answer) ==
  /\ countChecks[id] > 0
  /\ countChecks' = [countChecks EXCEPT ![id] = @ - 1]
  /\ docCount' = countResult(answer)
  /\ isCheckingDocs' = FALSE
  /\ checked' = [checked EXCEPT ![id] = countResult(answer)]
  /\ UNCHANGED <<stores, serverStores, storesLoad, storesError, storeToDelete,
                 deleteConfirmationText, isDeleting, deleteCalls, deleteLog,
                 storesAlert, opens>>
  /\ storesEvent' = StoresEvent(IF answer.ok THEN "countCheck_ok" ELSE "countCheck_failed", id)
  /\ UNCHANGED <<storesLoading, createForm, apiVars, docsVars, countVars, listVars, appVars, chatVars>>

\* the state closeDeleteModal sets
closeDeleteModal_effect ==
  /\ storeToDelete' = NoStore
  /\ deleteConfirmationText' = ""
  /\ isDeleting' = FALSE
  /\ docCount' = Null

\* closeDeleteModal: Close, Cancel, Escape, the backdrop or the X of the Modal
closeDeleteModal ==
  /\ DeleteModalOpen
  /\ closeDeleteModal_effect
  /\ UNCHANGED <<stores, serverStores, storesLoad, storesError, isCheckingDocs,
                 countChecks, checked, deleteCalls, deleteLog, storesAlert, opens>>
  /\ storesEvent' = StoresEvent("closeDeleteModal", storeToDelete.id)
  /\ UNCHANGED <<storesLoading, createForm, apiVars, docsVars, countVars, listVars, appVars, chatVars>>

\* onChange of the confirmation input
setDeleteConfirmationText(text) ==
  /\ DeleteFormShown
  /\ deleteConfirmationText # text
  /\ deleteConfirmationText' = text
  /\ UNCHANGED <<stores, serverStores, storesLoad, storesError, storeToDelete,
                 isDeleting, isCheckingDocs, docCount, countChecks, checked,
                 deleteCalls, deleteLog, storesAlert, opens>>
  /\ storesEvent' = StoresEvent("setDeleteConfirmationText", storeToDelete.id)
  /\ UNCHANGED <<storesLoading, createForm, apiVars, docsVars, countVars, listVars, appVars, chatVars>>

\* whether the "Delete Permanently" button can be clicked
confirmDelete_enabled == DeleteFormShown /\ DeleteButtonEnabled

\* confirmDelete up to its await: setIsDeleting(true) and the request
\* apiService.deleteStore(config, storeToDelete.id)
confirmDelete ==
  /\ confirmDelete_enabled
  /\ deleteCalls[storeToDelete.id] < MaxInFlight
  /\ isDeleting' = TRUE
  /\ deleteCalls' = [deleteCalls EXCEPT ![storeToDelete.id] = @ + 1]
  /\ deleteLog' = deleteLog \cup
                    {[id |-> storeToDelete.id, checked |-> checked[storeToDelete.id],
                      typed |-> deleteConfirmationText, store |-> storeToDelete]}
  /\ UNCHANGED <<stores, serverStores, storesLoad, storesError, storeToDelete,
                 deleteConfirmationText, isCheckingDocs, docCount, countChecks,
                 checked, storesAlert, opens>>
  /\ storesEvent' = StoresEvent("confirmDelete", storeToDelete.id)
  /\ UNCHANGED <<storesLoading, createForm, apiVars, docsVars, countVars, listVars, appVars, chatVars>>

\* a variant of confirmDelete_removes that filters the list on failure too
confirmDelete_removes_always(ok) == TRUE

\* whether confirmDelete filters the store out of stores: setStores follows
\* the await inside the try, so only when deleteStore did not throw
confirmDelete_removes(ok) == ok

\* confirmDelete from the answer of deleteStore on. Success: the store is
\* filtered out of stores and closeDeleteModal() runs. Failure: alert. Then
\* setIsDeleting(false)
confirmDelete_settles(id, ok) ==
  /\ deleteCalls[id] > 0
  /\ deleteCalls' = [deleteCalls EXCEPT ![id] = @ - 1]
  /\ stores' = IF confirmDelete_removes(ok)
                 THEN SelectSeq(stores, LAMBDA st : st.id # id) ELSE stores
  /\ IF ok
       THEN /\ serverStores' = SelectSeq(serverStores, LAMBDA st : st.id # id)
            /\ closeDeleteModal_effect
            /\ UNCHANGED storesAlert
       ELSE /\ storesAlert' = "Failed to delete store"
            /\ isDeleting' = FALSE
            /\ UNCHANGED <<serverStores, storeToDelete,
                           deleteConfirmationText, docCount>>
  /\ UNCHANGED <<storesLoad, storesError, isCheckingDocs, countChecks, checked,
                 deleteLog, opens>>
  /\ IF confirmDelete_removes(ok) THEN fetchCounts(stores') ELSE UNCHANGED countVars
  /\ storesEvent' = StoresEvent(IF ok THEN "delete_ok" ELSE "delete_failed", id)
  /\ UNCHANGED <<storesLoading, createForm, apiVars, docsVars, listVars, appVars, chatVars>>

\* the answers of a count check: a listing of 0..MaxCount documents, or a throw
CountAnswers ==
  {[ok |-> TRUE, count |-> n] : n \in 0..MaxCount} \cup {[ok |-> FALSE, count |-> 0]}

OpenDeleteModal == \E i \in 1..Len(stores) : openDeleteModal(stores[i])
OpenDeleteModalSettles ==
  \E id \in StoreIds, answer \in CountAnswers : openDeleteModal_settles(id, answer)
SetDeleteConfirmationText == \E text \in TypedTexts : setDeleteConfirmationText(text)
ConfirmDeleteSettles ==
  \E id \in StoreIds, ok \in BOOLEAN : confirmDelete_settles(id, ok)
\* the answers to the count request of a badge: a listing of no document,
\* or a throw
BadgeAnswers == {[ok |-> TRUE, count |-> 0], [ok |-> FALSE, count |-> 0]}
FetchCountsSettles ==
  \E id \in StoreIds, answer \in BadgeAnswers : fetchCounts_settles(id, answer)

\* the page under the Modal can be clicked: the "New Store" button and the
\* create form
StoresPageFree == StoresRendered /\ storeToDelete = NoStore

\* the "New Store" button: setIsCreating(true)
openCreateForm ==
  /\ StoresPageFree
  /\ ~isCreating
  /\ creates < MaxCreates
  /\ isCreating' = TRUE
  /\ storesEvent' = StoresEvent("openCreateForm", "")
  /\ UNCHANGED <<newStoreName, actionLoading, createCall, creates>>
  /\ UNCHANGED <<storesVars, apiVars, docsVars, countVars, listVars, appVars, chatVars>>

\* onChange of the name input of the create form
setNewStoreName(text) ==
  /\ StoresPageFree
  /\ isCreating
  /\ newStoreName # text
  /\ newStoreName' = text
  /\ storesEvent' = StoresEvent("setNewStoreName", "")
  /\ UNCHANGED <<isCreating, actionLoading, createCall, creates>>
  /\ UNCHANGED <<storesVars, apiVars, docsVars, countVars, listVars, appVars, chatVars>>

\* Cancel of the create form (disabled while actionLoading): setIsCreating(false)
cancelCreate ==
  /\ StoresPageFree
  /\ isCreating
  /\ ~actionLoading
  /\ isCreating' = FALSE
  /\ storesEvent' = StoresEvent("cancelCreate", "")
  /\ UNCHANGED <<newStoreName, actionLoading, createCall, creates>>
  /\ UNCHANGED <<storesVars, apiVars, docsVars, countVars, listVars, appVars, chatVars>>

\* handleCreate up to its await: returns when !newStoreName.trim(); the
\* submit button is disabled when actionLoading || !newStoreName.trim()
handleCreate ==
  /\ StoresPageFree
  /\ isCreating
  /\ Trim(newStoreName) # ""
  /\ ~actionLoading
  /\ creates < MaxCreates
  /\ creates' = creates + 1
  /\ actionLoading' = TRUE
  /\ createCall' = newStoreName
  /\ storesEvent' = StoresEvent("handleCreate", "")
  /\ UNCHANGED <<isCreating, newStoreName>>
  /\ UNCHANGED <<storesVars, apiVars, docsVars, countVars, listVars, appVars, chatVars>>

\* a variant of handleCreate_refetches that never calls fetchStores
handleCreate_refetches_never(ok) == FALSE

\* whether handleCreate calls fetchStores after createStore: always on success
handleCreate_refetches(ok) == ok

\* handleCreate from the answer of createStore on. Success: the form is
\* emptied and closed and fetchStores() is called without await, which sets
\* loading, clears error and calls listStores. Failure: alert. Then
\* setActionLoading(false)
handleCreate_settles(ok) ==
  /\ createCall # ""
  /\ createCall' = ""
  /\ actionLoading' = FALSE
  /\ IF ok
       THEN /\ serverStores' = Append(serverStores, CreatedStore(creates, createCall))
            /\ newStoreName' = ""
            /\ isCreating' = FALSE
            /\ storesEvent' = StoresEvent("create_ok", CreatedIds[creates])
            /\ UNCHANGED storesAlert
       ELSE /\ storesAlert' = "Failed to create store"
            /\ storesEvent' = StoresEvent("create_failed", "")
            /\ UNCHANGED <<serverStores, newStoreName, isCreating>>
  /\ IF handleCreate_refetches(ok)
       THEN /\ storesLoading' = TRUE
            /\ storesError' = ""
            /\ storesLoad' = storesLoad + 1
       ELSE UNCHANGED <<storesLoading, storesError, storesLoad>>
  /\ UNCHANGED <<stores, storeToDelete, deleteConfirmationText, isDeleting,
                 isCheckingDocs, docCount, countChecks, checked, deleteCalls,
                 deleteLog, opens, creates>>
  /\ UNCHANGED <<apiVars, docsVars, countVars, listVars, appVars, chatVars>>

SetNewStoreName == \E text \in NewStoreNames : setNewStoreName(text)
HandleCreateSettles == \E ok \in BOOLEAN : handleCreate_settles(ok)

(***************************************************************************)
(* The Documents component: the document list of one store, upload and     *)
(* optimistic delete.                                                      *)
(***************************************************************************)
NoDoc == ""
NoFile == ""
Files == {"report.pdf"}

\* the ids the backend gives the documents it holds at first and the
\* documents uploaded later
InitialDocs == <<"documents/d1", "documents/d2">>
UploadedIds == <<"documents/u1", "documents/u2", "documents/u3">>

\* the continuation a fetchDocs call returns to: the mount effect, or
\* handleUploadSubmit, which awaits it
FetchCallers == {"mount", "upload"}

Event(kind, shown) == [kind |-> kind, shown |-> shown]

DocsInit ==
  /\ storeId \in {"", StoreA.id}
  /\ docs = <<>>
  /\ serverDocs = InitialDocs
  \* the mount effect has called fetchDocs, which returns at once when
  \* !store.id and else sets loading and calls listDocuments
  /\ loading = (storeId # "")
  /\ docFetches = [c \in FetchCallers |-> IF c = "mount" /\ storeId # "" THEN 1 ELSE 0]
  /\ docToDelete = NoDoc
  /\ docIsDeleting = FALSE
  /\ docDeletes = {}
  /\ isUploadModalOpen = FALSE
  /\ fileToUpload = NoFile
  /\ isUploading = FALSE
  /\ uploadCall = NoFile
  /\ docEvent = Event("mount", <<>>)
  /\ docAlert = ""
  /\ uploads = 0
  /\ confirms = 0

\* no Modal of the Documents view covers the page
NoDocModal == ~isUploadModalOpen /\ docToDelete = NoDoc

\* fetchDocs from the answer of listDocuments on: setDocs(data) or alert;
\* finally setLoading(false). A call made by handleUploadSubmit returns to
\* it: closeUploadModal(), then setIsUploading(false)
fetchDocs_settles(caller, ok) ==
  /\ docFetches[caller] > 0
  /\ docFetches' = [docFetches EXCEPT ![caller] = @ - 1]
  /\ IF ok
       THEN docs' = serverDocs /\ UNCHANGED docAlert
       ELSE docAlert' = "Failed to load documents. Check console for details." /\ UNCHANGED docs
  /\ loading' = FALSE
  /\ IF caller = "upload"
       THEN fileToUpload' = NoFile /\ isUploadModalOpen' = FALSE /\ isUploading' = FALSE
       ELSE UNCHANGED <<fileToUpload, isUploadModalOpen, isUploading>>
  /\ docEvent' = Event(IF ok THEN "fetchDocs_ok" ELSE "fetchDocs_failed", <<>>)
  /\ UNCHANGED <<storeId, serverDocs, docToDelete, docIsDeleting, docDeletes,
                 uploadCall, uploads, confirms>>
  /\ UNCHANGED <<apiVars, storesVars, createVars, countVars, listVars, appVars, chatVars>>

\* openDeleteModal(doc): the trash button of a row of the table, which is
\* rendered when loading is false
Documents_openDeleteModal(doc) ==
  /\ ~loading
  /\ InSeq(doc, docs)
  /\ NoDocModal
  /\ confirms < MaxConfirms
  /\ docToDelete' = doc
  /\ docEvent' = Event("openDeleteModal", <<>>)
  /\ UNCHANGED <<storeId, docs, serverDocs, loading, docIsDeleting, docDeletes,
                 docFetches, isUploadModalOpen, fileToUpload, isUploading,
                 uploadCall, docAlert, uploads, confirms>>
  /\ UNCHANGED <<apiVars, storesVars, createVars, countVars, listVars, appVars, chatVars>>

\* closeDeleteModal of Documents
Documents_closeDeleteModal ==
  /\ docToDelete # NoDoc
  /\ docToDelete' = NoDoc
  /\ docIsDeleting' = FALSE
  /\ docEvent' = Event("closeDeleteModal", <<>>)
  /\ UNCHANGED <<storeId, docs, serverDocs, loading, docDeletes, docFetches,
                 isUploadModalOpen, fileToUpload, isUploading, uploadCall,
                 docAlert, uploads, confirms>>
  /\ UNCHANGED <<apiVars, storesVars, createVars, countVars, listVars, appVars, chatVars>>

\* const prevDocs = [...docs]
prevDocsOf(list) == list

\* docs.filter(d => d.id !== idToDelete)
withoutDoc(list, idToDelete) == SelectSeq(list, LAMBDA d : d # idToDelete)

\* a faulty variant of revertDocs that keeps the optimistic removal
revertDocs_keepsRemoval(call) == withoutDoc(call.prevDocs, call.id)

\* what the catch block of confirmDelete sets docs to: setDocs(prevDocs)
revertDocs(call) == call.prevDocs

\* confirmDelete of Documents up to its await: the optimistic update,
\* closeDeleteModal() and the request deleteDocument(config, store.id, id)
Documents_confirmDelete ==
  /\ docToDelete # NoDoc
  /\ ~docIsDeleting
  /\ confirms < MaxConfirms
  /\ confirms' = confirms + 1
  /\ docs' = withoutDoc(docs, docToDelete)
  /\ docDeletes' = docDeletes \cup
       {[id |-> docToDelete, prevDocs |-> prevDocsOf(docs), shown |-> docs]}
  /\ docToDelete' = NoDoc
  /\ docIsDeleting' = FALSE
  /\ docEvent' = Event("confirmDelete", docs)
  /\ UNCHANGED <<storeId, serverDocs, loading, docFetches, isUploadModalOpen,
                 fileToUpload, isUploading, uploadCall, docAlert, uploads>>
  /\ UNCHANGED <<apiVars, storesVars, createVars, countVars, listVars, appVars, chatVars>>

\* confirmDelete of Documents from the answer of deleteDocument on: nothing
\* on success; on failure setDocs(prevDocs), alert, setIsDeleting(false)
Documents_confirmDelete_settles(call, ok) ==
  /\ call \in docDeletes
  /\ docDeletes' = docDeletes \ {call}
  /\ IF ok
       THEN /\ serverDocs' = withoutDoc(serverDocs, call.id)
            /\ docEvent' = Event("delete_ok", call.shown)
            /\ UNCHANGED <<docs, docAlert, docIsDeleting>>
       ELSE /\ docs' = revertDocs(call)
            /\ docAlert' = "Failed to delete document"
            /\ docIsDeleting' = FALSE
            /\ docEvent' = Event("delete_failed", call.shown)
            /\ UNCHANGED serverDocs
  /\ UNCHANGED <<storeId, loading, docToDelete, docFetches, isUploadModalOpen,
                 fileToUpload, isUploading, uploadCall, uploads, confirms>>
  /\ UNCHANGED <<apiVars, storesVars, createVars, countVars, listVars, appVars, chatVars>>

\* the "Upload Document" button: setIsUploadModalOpen(true)
openUploadModal ==
  /\ NoDocModal
  /\ uploads < MaxUploads
  /\ isUploadModalOpen' = TRUE
  /\ docEvent' = Event("openUploadModal", <<>>)
  /\ UNCHANGED <<storeId, docs, serverDocs, loading, docToDelete, docIsDeleting,
                 docDeletes, docFetches, fileToUpload, isUploading, uploadCall,
                 docAlert, uploads, confirms>>
  /\ UNCHANGED <<apiVars, storesVars, createVars, countVars, listVars, appVars, chatVars>>

\* handleFileSelect / handleDrop: setFileToUpload(files[0])
handleFileSelect(file) ==
  /\ isUploadModalOpen
  /\ fileToUpload # file
  /\ fileToUpload' = file
  /\ docEvent' = Event("handleFileSelect", <<>>)
  /\ UNCHANGED <<storeId, docs, serverDocs, loading, docToDelete, docIsDeleting,
                 docDeletes, docFetches, isUploadModalOpen, isUploading,
                 uploadCall, docAlert, uploads, confirms>>
  /\ UNCHANGED <<apiVars, storesVars, createVars, countVars, listVars, appVars, chatVars>>

\* closeUploadModal by Escape, the backdrop, the X or Cancel
closeUploadModal ==
  /\ isUploadModalOpen
  /\ fileToUpload' = NoFile
  /\ isUploadModalOpen' = FALSE
  /\ docEvent' = Event("closeUploadModal", <<>>)
  /\ UNCHANGED <<storeId, docs, serverDocs, loading, docToDelete, docIsDeleting,
                 docDeletes, docFetches, isUploading, uploadCall, docAlert,
                 uploads, confirms>>
  /\ UNCHANGED <<apiVars, storesVars, createVars, countVars, listVars, appVars, chatVars>>

\* handleUploadSubmit up to its first await: the submit button is disabled
\* when !fileToUpload || isUploading
handleUploadSubmit ==
  /\ isUploadModalOpen
  /\ fileToUpload # NoFile
  /\ ~isUploading
  /\ uploads < MaxUploads
  /\ uploads' = uploads + 1
  /\ isUploading' = TRUE
  /\ uploadCall' = fileToUpload
  /\ docEvent' = Event("handleUploadSubmit", <<>>)
  /\ UNCHANGED <<storeId, docs, serverDocs, loading, docToDelete, docIsDeleting,
                 docDeletes, docFetches, isUploadModalOpen, fileToUpload,
                 docAlert, confirms>>
  /\ UNCHANGED <<apiVars, storesVars, createVars, countVars, listVars, appVars, chatVars>>

\* a faulty variant of fetchDocs_fetches: fetchDocs always returns at once
fetchDocs_fetches_never(id) == FALSE

\* whether fetchDocs goes on to call listDocuments: if (!store.id) return
fetchDocs_fetches(id) == id # ""

\* handleUploadSubmit from the answer of uploadDocument on. Success: await
\* fetchDocs(), which returns at once when !store.id (then closeUploadModal()
\* and setIsUploading(false) follow) and else sets loading and calls
\* listDocuments. Failure: alert, setIsUploading(false)
handleUploadSubmit_settles(ok) ==
  /\ uploadCall # NoFile
  /\ uploadCall' = NoFile
  /\ IF ok
       THEN /\ serverDocs' = Append(serverDocs, UploadedIds[uploads])
            /\ docEvent' = Event("upload_ok", <<>>)
            /\ UNCHANGED docAlert
            /\ IF fetchDocs_fetches(storeId)
                 THEN /\ loading' = TRUE
                      /\ docFetches' = [docFetches EXCEPT !["upload"] = @ + 1]
                      /\ UNCHANGED <<fileToUpload, isUploadModalOpen, isUploading>>
                 ELSE /\ fileToUpload' = NoFile
                      /\ isUploadModalOpen' = FALSE
                      /\ isUploading' = FALSE
                      /\ UNCHANGED <<loading, docFetches>>
       ELSE /\ docAlert' = "Failed to upload document"
            /\ isUploading' = FALSE
            /\ docEvent' = Event("upload_failed", <<>>)
            /\ UNCHANGED <<serverDocs, loading, docFetches, fileToUpload,
                           isUploadModalOpen>>
  /\ UNCHANGED <<storeId, docs, docToDelete, docIsDeleting, docDeletes, uploads,
                 confirms>>
  /\ UNCHANGED <<apiVars, storesVars, createVars, countVars, listVars, appVars, chatVars>>

FetchDocsSettles ==
  \E caller \in FetchCallers, ok \in BOOLEAN : fetchDocs_settles(caller, ok)
DocumentsOpenDeleteModal ==
  \E i \in 1..Len(docs) : Documents_openDeleteModal(docs[i])
DocumentsConfirmDeleteSettles ==
  \E call \in docDeletes, ok \in BOOLEAN : Documents_confirmDelete_settles(call, ok)
HandleFileSelect == \E file \in Files : handleFileSelect(file)
HandleUploadSubmitSettles == \E ok \in BOOLEAN : handleUploadSubmit_settles(ok)

(***************************************************************************)
(* App: the startup configuration, the view controller and the Settings    *)
(* form.                                                                   *)
(***************************************************************************)
\* the constant HARDCODED_CONFIG as the repository ships it
HARDCODED_CONFIG ==
  [f \in Fields |->
     IF f = "chatDocUrl" THEN "https://devlu-n8n.ecnsal.easypanel.host/webhook/chat-doc"
     ELSE "https://devlu-n8n.ecnsal.easypanel.host/webhook/" \o f]

\* the values a build may give HARDCODED_CONFIG, which the source invites to
\* edit and tests for emptiness at run time: as shipped, all empty, only
\* the chat endpoint, only a blank list-stores endpoint
HardcodedConfigs ==
  {HARDCODED_CONFIG,
   defaultEmptyConfig,
   [defaultEmptyConfig EXCEPT !["chatDocUrl"] = HARDCODED_CONFIG["chatDocUrl"]],
   [defaultEmptyConfig EXCEPT !["listStoresUrl"] = " "]}

\* Object.values(HARDCODED_CONFIG).some(v => v && v.trim().length > 0)
hasHardcodedConfig(hc) == \E f \in Fields : hc[f] # "" /\ Len(Trim(hc[f])) > 0

\* localStorage.getItem(STORAGE_KEY): null, or a text that is empty, no
\* JSON, or the JSON text of a value
StorageAbsent == [kind |-> "absent", json |-> Undefined]
StorageEmptyText == [kind |-> "empty", json |-> Undefined]
StorageUnparseable == [kind |-> "unparseable", json |-> Undefined]
Stored(v) == [kind |-> "json", json |-> v]

\* JSON.stringify(newConfig) as the value its text parses to
ConfigJson(c) == Obj([f \in Fields |-> Str(c[f])])

\* persisted objects: the list-stores endpoint absent, "", set, or a text
\* that is no URL; the chat endpoint absent or set; the other endpoints all
\* absent or all set
PersistedObjects ==
  {ObjFrom([f \in Fields |->
              IF f = "listStoresUrl" THEN l
              ELSE IF f = "chatDocUrl" THEN c
              ELSE r]) :
     l \in {Undefined, Str(""), Str("https://n8n.example/webhook/list"), Str("not a url")},
     c \in {Undefined, Str("https://n8n.example/webhook/chat")},
     r \in {Undefined, Str("https://n8n.example/webhook/other")}}

Storages ==
  {StorageAbsent, StorageEmptyText, StorageUnparseable, Stored(Null)}
    \cup {Stored(v) : v \in PersistedObjects}

\* if (saved): null and "" are falsy
savedIsTruthy(saved) == saved.kind \in {"unparseable", "json"}

\* a variant of mergeBase that merges the persisted fields over
\* HARDCODED_CONFIG
mergeBase_hardcoded(hc) == hc

\* the configuration merged with: { ...<base>, ...parsed } has the base
\* defaultEmptyConfig
mergeBase(hc) == defaultEmptyConfig

\* const mergedConfig = { ...defaultEmptyConfig, ...parsed }
mergedConfigOf(parsed, hc) ==
  [f \in Fields |->
     IF f \in DOMAIN SpreadOf(parsed) THEN SpreadOf(parsed)[f].v ELSE mergeBase(hc)[f]]

Views == {"STORES", "DOCUMENTS", "SETTINGS", "CHAT"}

\* what the initialisation effect sets: [config, view]. config is the
\* useState default unless setConfig is called
initialisation(saved, hc) ==
  IF savedIsTruthy(saved) /\ saved.kind = "json"
    THEN [config |-> mergedConfigOf(saved.json, hc),
          view |-> IF mergedConfigOf(saved.json, hc)["listStoresUrl"] # ""
                     THEN "STORES" ELSE "SETTINGS"]
  ELSE IF hasHardcodedConfig(hc)
    THEN [config |-> hc, view |-> "STORES"]
  ELSE [config |-> defaultEmptyConfig, view |-> "SETTINGS"]

AppEvent(kind, store, form) == [kind |-> kind, store |-> store, form |-> form]

\* the state of App before its initialisation effect has run
AppStart ==
  /\ appConfig = defaultEmptyConfig
  /\ view = "STORES"
  /\ selectedStore = NoStore
  /\ isInitialized = FALSE
  /\ formData = defaultEmptyConfig
  /\ formErrors = {}
  /\ edits = 0
  /\ settingsOrigin = "none"
  /\ appEvent = AppEvent("start", NoStore, defaultEmptyConfig)

AppInit ==
  /\ hardcodedConfig \in HardcodedConfigs
  /\ localStorageConfig \in Storages
  /\ AppStart

\* the Settings component of the next state: mounted with formData =
\* currentConfig when the view becomes SETTINGS, kept while it stays
\* SETTINGS, unmounted otherwise; settingsOrigin keeps the view it was last
\* mounted from
SettingsFollows(nextView, nextConfig) ==
  IF nextView # "SETTINGS"
    THEN formData' = defaultEmptyConfig /\ formErrors' = {} /\ UNCHANGED settingsOrigin
  ELSE IF isInitialized /\ view = "SETTINGS"
    THEN UNCHANGED <<formData, formErrors, settingsOrigin>>
  ELSE /\ formData' = nextConfig
       /\ formErrors' = {}
       /\ settingsOrigin' = IF isInitialized THEN view ELSE "start"

\* the initialisation effect of App
initialise ==
  /\ ~isInitialized
  /\ isInitialized' = TRUE
  /\ appConfig' = initialisation(localStorageConfig, hardcodedConfig).config
  /\ view' = initialisation(localStorageConfig, hardcodedConfig).view
  /\ SettingsFollows(view', appConfig')
  /\ appEvent' = AppEvent("initialise", NoStore, defaultEmptyConfig)
  /\ UNCHANGED <<hardcodedConfig, localStorageConfig, selectedStore, edits>>
  /\ UNCHANGED <<apiVars, storesVars, createVars, docsVars, countVars, listVars, chatVars>>

\* a click that calls setView(target)
setView(kind, target) ==
  /\ isInitialized
  /\ view' = target
  /\ SettingsFollows(target, appConfig)
  /\ appEvent' = AppEvent(kind, NoStore, defaultEmptyConfig)
  /\ UNCHANGED <<hardcodedConfig, localStorageConfig, appConfig, selectedStore,
                 isInitialized, edits>>
  /\ UNCHANGED <<apiVars, storesVars, createVars, docsVars, countVars, listVars, chatVars>>

\* whether the brand of the navbar can be clicked: it is rendered always
brandShown(config) == TRUE

\* {config.listStoresUrl && (...)}: the FileStores and Chat links
navLinksShown(config) == config["listStoresUrl"] # ""

\* the brand: onClick={() => setView(ViewState.STORES)}
navBrand == brandShown(appConfig) /\ setView("nav_brand", "STORES")
\* the FileStores link
navStores == navLinksShown(appConfig) /\ setView("nav_stores", "STORES")
\* the Chat link and the mobile Chat button
navChat == navLinksShown(appConfig) /\ setView("nav_chat", "CHAT")
\* the Settings button, rendered once App is initialised
navSettings == isInitialized /\ setView("nav_settings", "SETTINGS")

\* Cancel of Settings: rendered when !isFirstRun && onCancel, both of which
\* are config.listStoresUrl being non-empty
settingsCancel ==
  /\ view = "SETTINGS"
  /\ appConfig["listStoresUrl"] # ""
  /\ setView("settings_cancel", "STORES")

\* the fields the model edits in the Settings form and the texts it types
EditedFields == {"listStoresUrl", "chatDocUrl"}
TypedUrls == {"", "/webhook/list", "https://n8n.example/webhook/new", "not a url"}

\* new URL(val) does not throw, for the texts of the model: an absolute URL
\* starts with its scheme
startsWith(s, prefix) ==
  Len(s) >= Len(prefix) /\ SubSeq(s, 1, Len(prefix)) = prefix
parsesAsURL(val) ==
  \/ startsWith(val, "https://") /\ Len(val) > Len("https://")
  \/ startsWith(val, "http://") /\ Len(val) > Len("http://")

\* the keys validate() reports an error for
validate(form) ==
  {key \in Fields :
     IF key = "chatDocUrl" /\ form[key] = "" THEN FALSE
     ELSE IF form[key] = "" THEN TRUE
     ELSE IF startsWith(form[key], "/") THEN FALSE
     ELSE ~parsesAsURL(form[key])}

\* handleChange of Settings: the field is set and its error cleared
handleChange(key, value) ==
  /\ isInitialized
  /\ view = "SETTINGS"
  /\ edits < MaxEdits
  /\ formData[key] # value
  /\ formData' = [formData EXCEPT ![key] = value]
  /\ formErrors' = formErrors \ {key}
  /\ edits' = edits + 1
  /\ appEvent' = AppEvent("handleChange", NoStore, formData')
  /\ UNCHANGED <<hardcodedConfig, localStorageConfig, appConfig, view, selectedStore,
                 isInitialized, settingsOrigin>>
  /\ UNCHANGED <<apiVars, storesVars, createVars, docsVars, countVars, listVars, chatVars>>

\* a variant of viewAfterSave that returns to the view Settings came from
viewAfterSave_origin(origin) == origin

\* the view handleSaveConfig ends in: setView(ViewState.STORES)
viewAfterSave(origin) == "STORES"

\* handleSubmit of Settings: validate(), and if it passes onSave(formData),
\* which is handleSaveConfig of App: setConfig, localStorage.setItem, setView
handleSubmit ==
  /\ isInitialized
  /\ view = "SETTINGS"
  /\ IF validate(formData) = {}
       THEN /\ appConfig' = formData
            /\ localStorageConfig' = Stored(ConfigJson(formData))
            /\ view' = viewAfterSave(settingsOrigin)
            /\ SettingsFollows(view', appConfig')
            /\ appEvent' = AppEvent("saved", NoStore, formData)
       ELSE /\ formErrors' = validate(formData)
            /\ appEvent' = AppEvent("rejected", NoStore, formData)
            /\ UNCHANGED <<appConfig, localStorageConfig, view, formData, settingsOrigin>>
  /\ UNCHANGED <<hardcodedConfig, selectedStore, isInitialized, edits>>
  /\ UNCHANGED <<apiVars, storesVars, createVars, docsVars, countVars, listVars, chatVars>>

\* "Reset to Defaults" of Settings: localStorage.removeItem and a reload of
\* the page, which starts App again
resetToDefaults ==
  /\ isInitialized
  /\ view = "SETTINGS"
  /\ localStorageConfig' = StorageAbsent
  /\ appConfig' = defaultEmptyConfig
  /\ view' = "STORES"
  /\ selectedStore' = NoStore
  /\ isInitialized' = FALSE
  /\ formData' = defaultEmptyConfig
  /\ formErrors' = {}
  /\ settingsOrigin' = "none"
  /\ appEvent' = AppEvent("start", NoStore, defaultEmptyConfig)
  /\ UNCHANGED <<hardcodedConfig, edits>>
  /\ UNCHANGED <<apiVars, storesVars, createVars, docsVars, countVars, listVars, chatVars>>

\* handleStoreSelect: onSelectStore of the FileStores view
handleStoreSelect(store) ==
  /\ isInitialized
  /\ view = "STORES"
  /\ selectedStore' = store
  /\ view' = "DOCUMENTS"
  /\ appEvent' = AppEvent("handleStoreSelect", store, defaultEmptyConfig)
  /\ UNCHANGED <<hardcodedConfig, localStorageConfig, appConfig, isInitialized,
                 formData, formErrors, edits, settingsOrigin>>
  /\ UNCHANGED <<apiVars, storesVars, createVars, docsVars, countVars, listVars, chatVars>>

\* a variant of selectionAfterBack that keeps the selection
selectionAfterBack_kept(selected) == selected

\* the store goBackToStores leaves selected: setSelectedStore(null)
selectionAfterBack(selected) == NoStore

\* a variant of viewAfterBack that stays on the view
viewAfterBack_stays(current) == current

\* the view goBackToStores leaves: setView(ViewState.STORES)
viewAfterBack(current) == "STORES"

\* goBackToStores: onBack of the Documents view, rendered when
\* view === DOCUMENTS && selectedStore
goBackToStores ==
  /\ isInitialized
  /\ view = "DOCUMENTS"
  /\ selectedStore # NoStore
  /\ selectedStore' = selectionAfterBack(selectedStore)
  /\ view' = viewAfterBack(view)
  /\ appEvent' = AppEvent("goBackToStores", selectedStore, defaultEmptyConfig)
  /\ UNCHANGED <<hardcodedConfig, localStorageConfig, appConfig, isInitialized,
                 formData, formErrors, edits, settingsOrigin>>
  /\ UNCHANGED <<apiVars, storesVars, createVars, docsVars, countVars, listVars, chatVars>>

HandleChange == \E key \in EditedFields, value \in TypedUrls : handleChange(key, value)
\* the stores of the rendered list one of which is clicked
HandleStoreSelect == \E store \in {StoreA, StoreB} : handleStoreSelect(store)

(***************************************************************************)
(* Chat: the component of the CHAT view.                                   *)
(***************************************************************************)
NoChatCall == [storeId |-> "", message |-> ""]

\* what listStores answers the mount effect with: a list of stores
ChatStoreLists == {<<>>, <<StoreA>>, <<StoreA, StoreB>>, <<StoreB, StoreA>>}

\* the texts typed into the message input
ChatInputs == {"", " ", "hello"}

\* what chatWithStore settles with: an answer, an empty answer, an Error
ChatOutcomes ==
  {Ok(Str("The answer")), Ok(Str("")), Fail("Error", "Chat request failed: Bad Gateway")}

ChatMessage(role, content) == [role |-> role, content |-> content]

ChatInit ==
  /\ chatDocUrl \in {"", FullConfig["chatDocUrl"]}
  /\ chatStores = <<>>
  /\ selectedStoreId = ""
  /\ messages = <<>>
  /\ input = ""
  /\ chatLoading = FALSE
  /\ fetchingStores = TRUE       \* the mount effect has called listStores
  /\ chatError = ""
  /\ chatCall = NoChatCall
  /\ sends = 0

\* the selector, the input and the send button are rendered only when the
\* chat endpoint is configured
ChatRendered == chatDocUrl # ""

\* loadStores of the mount effect from the answer of listStores on
loadStores_settles(outcome) ==
  /\ fetchingStores
  /\ IF outcome.ok
       THEN /\ chatStores' = outcome.value
            /\ selectedStoreId' =
                 IF Len(outcome.value) > 0 THEN outcome.value[1].id ELSE selectedStoreId
            /\ UNCHANGED chatError
       ELSE /\ chatError' = "Could not load stores. Please check your connection."
            /\ UNCHANGED <<chatStores, selectedStoreId>>
  /\ fetchingStores' = FALSE
  /\ UNCHANGED <<chatDocUrl, messages, input, chatLoading, chatCall, sends>>
  /\ UNCHANGED <<apiVars, storesVars, createVars, docsVars, countVars, listVars, appVars>>

\* a variant of sendDisabled that leaves the form usable while a request is
\* in flight
sendDisabled_never(isLoading) == FALSE

\* what loading contributes to the disabled attribute of the input and of
\* the send button: disabled={... || loading || ...}
sendDisabled(isLoading) == isLoading

\* onChange of the message input, disabled={loading || stores.length === 0}
setInput(text) ==
  /\ ChatRendered
  /\ ~sendDisabled(chatLoading)
  /\ Len(chatStores) # 0
  /\ input # text
  /\ input' = text
  /\ UNCHANGED <<chatDocUrl, chatStores, selectedStoreId, messages, chatLoading,
                 fetchingStores, chatError, chatCall, sends>>
  /\ UNCHANGED <<apiVars, storesVars, createVars, docsVars, countVars, listVars, appVars>>

\* setMessages(prev => [...prev, msg])
appended(prev, msg) == Append(prev, msg)

\* handleSend up to its await; the send button is
\* disabled={!input.trim() || loading || stores.length === 0}
handleSend ==
  /\ ChatRendered
  /\ ~sendDisabled(chatLoading)
  /\ Len(chatStores) # 0
  /\ Trim(input) # ""
  /\ selectedStoreId # ""
  /\ sends < MaxSends
  /\ messages' = appended(messages, ChatMessage("user", input))
  /\ input' = ""
  /\ chatLoading' = TRUE
  /\ chatCall' = [storeId |-> selectedStoreId, message |-> input]
  /\ sends' = sends + 1
  /\ UNCHANGED <<chatDocUrl, chatStores, selectedStoreId, fetchingStores, chatError>>
  /\ UNCHANGED <<apiVars, storesVars, createVars, docsVars, countVars, listVars, appVars>>

\* handleSend from the answer of chatWithStore on
handleSend_settles(outcome) ==
  /\ chatLoading
  /\ messages' =
       appended(messages,
                IF outcome.ok
                  THEN ChatMessage("assistant",
                                   IF outcome.value.v # "" THEN outcome.value.v
                                   ELSE "No response received")
                  ELSE ChatMessage("assistant", outcome.error.message))
  /\ chatLoading' = FALSE
  /\ chatCall' = NoChatCall
  /\ UNCHANGED <<chatDocUrl, chatStores, selectedStoreId, input, fetchingStores,
                 chatError, sends>>
  /\ UNCHANGED <<apiVars, storesVars, createVars, docsVars, countVars, listVars, appVars>>

\* a variant of messagesAfterSwitch that keeps the transcript
messagesAfterSwitch_kept(prev) == prev

\* the transcript after the selector changed: setMessages([])
messagesAfterSwitch(prev) == <<>>

\* onChange of the store selector, rendered when the stores are fetched and
\* there is one; it fires when another option is chosen
selectStore(id) ==
  /\ ChatRendered
  /\ ~fetchingStores
  /\ Len(chatStores) # 0
  /\ id # selectedStoreId
  /\ selectedStoreId' = id
  /\ messages' = messagesAfterSwitch(messages)
  /\ UNCHANGED <<chatDocUrl, chatStores, input, chatLoading, fetchingStores,
                 chatError, chatCall, sends>>
  /\ UNCHANGED <<apiVars, storesVars, createVars, docsVars, countVars, listVars, appVars>>

LoadStoresSettles ==
  \E outcome \in {Ok(l) : l \in ChatStoreLists}
                   \cup {Fail("Error", "Failed to fetch stores: 502 Bad Gateway")} :
    loadStores_settles(outcome)
SetInput == \E text \in ChatInputs : setInput(text)
HandleSendSettles == \E outcome \in ChatOutcomes : handleSend_settles(outcome)
SelectStore == \E i \in 1..Len(chatStores) : selectStore(chatStores[i].id)

(***************************************************************************)
(* The specifications.                                                     *)
(***************************************************************************)
\* the variables of a part that is not running keep these values
ApiIdle == ApiInit
StoresIdle ==
  /\ StoresInit
DocsIdle ==
  /\ DocsInit
  /\ storeId = ""
AppIdle ==
  /\ hardcodedConfig = HARDCODED_CONFIG
  /\ localStorageConfig = StorageAbsent
  /\ AppStart
ChatIdle ==
  /\ ChatInit
  /\ chatDocUrl = ""

\* the API adapter
Init == ApiInit /\ StoresIdle /\ DocsIdle /\ AppIdle /\ ChatIdle
Next ==
  \/ listStores \/ createStore \/ deleteStore \/ listDocuments
  \/ uploadDocument \/ deleteDocument \/ chatWithStore
  \/ listStores_settles \/ createStore_settles \/ deleteStore_settles
  \/ listDocuments_settles \/ uploadDocument_settles
  \/ deleteDocument_settles \/ chatWithStore_settles
  \/ ApiReturn
Spec == Init /\ [][Next]_vars

\* the FileStores component
InitStores == ApiIdle /\ StoresInit /\ DocsIdle /\ AppIdle /\ ChatIdle
NextStores ==
  \/ fetchStores_settles
  \/ OpenDeleteModal
  \/ OpenDeleteModalSettles
  \/ closeDeleteModal
  \/ SetDeleteConfirmationText
  \/ confirmDelete
  \/ ConfirmDeleteSettles
SpecStores == InitStores /\ [][NextStores]_vars

\* the FileStores component: the create form and the fetches of the list,
\* with the delete dialog closed
InitCreate == ApiIdle /\ StoresInit /\ DocsIdle /\ AppIdle /\ ChatIdle
NextCreate ==
  \/ fetchStores_settles
  \/ openCreateForm
  \/ SetNewStoreName
  \/ cancelCreate
  \/ handleCreate
  \/ HandleCreateSettles
SpecCreate == InitCreate /\ [][NextCreate]_vars

\* the FileStores component: the count badges of the store cards, with the
\* fetches of the list and the create form that causes them
InitCounts == ApiIdle /\ StoresInit /\ DocsIdle /\ AppIdle /\ ChatIdle
NextCounts ==
  \/ fetchStores_settles
  \/ FetchCountsSettles
  \/ openCreateForm
  \/ SetNewStoreName
  \/ cancelCreate
  \/ handleCreate
  \/ HandleCreateSettles
SpecCounts == InitCounts /\ [][NextCounts]_vars

\* the FileStores component: a list response under way while stores are
\* created and deleted; the user types the names in full
TypeNewStoreName ==
  /\ newStoreName = ""
  /\ setNewStoreName("Gamma")
TypeDisplayName ==
  /\ storeToDelete # NoStore
  /\ setDeleteConfirmationText(getDisplayName(storeToDelete))
InitRefetch == ApiIdle /\ StoresInit /\ DocsIdle /\ AppIdle /\ ChatIdle
NextRefetch ==
  \/ listStores_answered
  \/ fetchStores_settles
  \/ openCreateForm
  \/ TypeNewStoreName
  \/ handleCreate
  \/ HandleCreateSettles
  \/ OpenDeleteModal
  \/ OpenDeleteModalSettles
  \/ TypeDisplayName
  \/ confirmDelete
  \/ ConfirmDeleteSettles
SpecRefetch == InitRefetch /\ [][NextRefetch]_vars

\* the Documents component
InitDocs == ApiIdle /\ StoresIdle /\ DocsInit /\ AppIdle /\ ChatIdle
NextDocs ==
  \/ FetchDocsSettles
  \/ DocumentsOpenDeleteModal
  \/ Documents_closeDeleteModal
  \/ Documents_confirmDelete
  \/ DocumentsConfirmDeleteSettles
  \/ openUploadModal
  \/ HandleFileSelect
  \/ closeUploadModal
  \/ handleUploadSubmit
  \/ HandleUploadSubmitSettles
SpecDocs == InitDocs /\ [][NextDocs]_vars

\* App: the startup, the navigation and the Settings form
InitApp == ApiIdle /\ StoresIdle /\ DocsIdle /\ AppInit /\ ChatIdle
NextApp ==
  \/ initialise
  \/ navBrand
  \/ navStores
  \/ navChat
  \/ navSettings
  \/ settingsCancel
  \/ HandleChange
  \/ handleSubmit
  \/ resetToDefaults
  \/ HandleStoreSelect
  \/ goBackToStores
SpecApp == InitApp /\ [][NextApp]_vars

\* the Chat component
InitChat == ApiIdle /\ StoresIdle /\ DocsIdle /\ AppIdle /\ ChatInit
NextChat ==
  \/ LoadStoresSettles
  \/ SetInput
  \/ handleSend
  \/ HandleSendSettles
  \/ SelectStore
SpecChat == InitChat /\ [][NextChat]_vars

\* Chat when every chat request in flight is answered or fails in the end
SpecChatLive == SpecChat /\ WF_vars(HandleSendSettles)

(***************************************************************************)
(* Properties of the FileStores component (SpecStores).                    *)
(***************************************************************************)
\* C1: a delete-store request for a store is issued only if the
\* document-count check fetched for that store returned exactly zero,
\* whatever the order of opening and closing the dialog and of the answers
\* of the count checks
C1_DeleteOnlyAfterZeroCount ==
  \A r \in deleteLog : r.checked = Num(0)

(***************************************************************************)
(* Properties of the Documents component (SpecDocs).                       *)
(***************************************************************************)
\* C2: when a document delete fails, the list shown is exactly the ordered
\* list that was displayed when that delete was confirmed, and the error
\* is surfaced
C2_FailedDeleteRestoresList ==
  docEvent.kind = "delete_failed" =>
    /\ docs = docEvent.shown
    /\ docAlert = "Failed to delete document"

\* a delete of the second of two documents has failed after the first was
\* removed too, and the list of two is back
C2_Witness ==
  /\ docEvent.kind = "delete_failed"
  /\ docEvent.shown = InitialDocs
  /\ docs = InitialDocs
  /\ confirms = 2
  /\ docAlert = "Failed to delete document"

\* the step in which the answer of uploadDocument arrives
UploadSettles == uploadCall # NoFile /\ uploadCall' = NoFile
\* the step in which the answer of the re-fetch after an upload arrives
RefetchSettles == docFetches'["upload"] < docFetches["upload"]
\* the step issues a re-fetch of the document list
RefetchIssued ==
  /\ docFetches' = [docFetches EXCEPT !["upload"] = @ + 1]
  /\ loading'

\* C8 as claimed: after an upload succeeds the document list is re-fetched
\* and the local list is replaced by the re-fetched listing, with no local
\* insert; after an upload fails there is no re-fetch and the list is unchanged
C8_Original ==
  [][/\ UploadSettles /\ docEvent'.kind = "upload_ok" =>
          RefetchIssued /\ docs' = docs
     /\ UploadSettles /\ docEvent'.kind = "upload_failed" =>
          docFetches' = docFetches /\ docs' = docs
     /\ RefetchSettles => docs' = serverDocs]_vars

\* C8 amended: for a store with a non-empty id, a successful upload issues
\* a re-fetch and inserts nothing locally, and the local list becomes the
\* re-fetched listing when the re-fetch succeeds and stays as it is when the
\* re-fetch fails; for a store with an empty id a successful upload issues
\* no re-fetch; a failed upload issues no re-fetch, leaves the list
\* unchanged and is reported
C8_UploadRefetches ==
  [][/\ UploadSettles /\ docEvent'.kind = "upload_ok" /\ storeId # "" =>
          RefetchIssued /\ docs' = docs
     /\ UploadSettles /\ docEvent'.kind = "upload_ok" /\ storeId = "" =>
          docFetches' = docFetches /\ docs' = docs
     /\ UploadSettles /\ docEvent'.kind = "upload_failed" =>
          /\ docFetches' = docFetches
          /\ docs' = docs
          /\ docAlert' = "Failed to upload document"
     /\ RefetchSettles /\ docEvent'.kind = "fetchDocs_ok" => docs' = serverDocs
     /\ RefetchSettles /\ docEvent'.kind = "fetchDocs_failed" => docs' = docs]_vars

\* the re-fetch after a successful upload has succeeded: the list holds the
\* uploaded document and the upload dialog is closed
C8_Witness ==
  /\ storeId # ""
  /\ docEvent.kind = "fetchDocs_ok"
  /\ uploads = 1
  /\ docFetches["upload"] = 0
  /\ ~isUploading
  /\ ~isUploadModalOpen
  /\ docs = Append(InitialDocs, UploadedIds[1])

(***************************************************************************)
(* Properties of the API adapter (Spec).                                   *)
(***************************************************************************)
\* the call of op has ended
Done(op) == apiPc = "done" /\ apiCall.op = op
\* the fetch of the call was answered 2xx with the text of a JSON value
GotJson ==
  /\ apiOutcome.kind = "response"
  /\ apiOutcome.ok
  /\ apiOutcome.body.text = "json"
\* that JSON value
Data == apiOutcome.body.json

IsObject(x) == x.t = "object"
Has(x, k) == IsObject(x) /\ k \in DOMAIN x.v
AllObjects(a) == \A i \in 1..Len(a) : IsObject(a[i])

\* the store array of a response of shape (1) or (2); <<>> for another shape
FileSearchStoresOf(data) ==
  IF Has(data, "fileSearchStores") /\ IsArray(data.v["fileSearchStores"])
    THEN data.v["fileSearchStores"].v
  ELSE IF IsArray(data) /\ Len(data.v) > 0 /\ Has(data.v[1], "fileSearchStores")
            /\ IsArray(data.v[1].v["fileSearchStores"])
    THEN data.v[1].v["fileSearchStores"].v
  ELSE <<>>

\* C3: for a list-stores response of shape (1) or (2), the normalised id of
\* every store is its raw name and the normalised name is its raw
\* displayName when it has one (a non-empty one), else its raw name; so
\* {name: 'fileSearchStores/abc', displayName: 'Marketing'} gets the id
\* 'fileSearchStores/abc' and the name 'Marketing'
C3_StoreIdAndName ==
  Done("listStores") /\ GotJson /\ FileSearchStoresOf(Data) # <<>>
      /\ (\A i \in 1..Len(FileSearchStoresOf(Data)) :
            Has(FileSearchStoresOf(Data)[i], "name")) =>
    /\ apiResult.ok
    /\ IsArray(apiResult.value)
    /\ Len(apiResult.value.v) = Len(FileSearchStoresOf(Data))
    /\ \A i \in 1..Len(FileSearchStoresOf(Data)) :
         LET raw == FileSearchStoresOf(Data)[i]
             st == apiResult.value.v[i]
         IN /\ Get(st, "id") = raw.v["name"]
            /\ Get(st, "name") =
                 IF Has(raw, "displayName") /\ raw.v["displayName"] # Str("")
                   THEN raw.v["displayName"] ELSE raw.v["name"]

\* the document array of a list-documents response; <<>> for another shape
RawDocsOf(data) ==
  IF IsArray(data) THEN data.v
  ELSE IF Has(data, "documents") /\ IsArray(data.v["documents"]) THEN data.v["documents"].v
  ELSE IF Has(data, "data") /\ IsArray(data.v["data"]) THEN data.v["data"].v
  ELSE <<>>

\* the non-empty stringValues of the nombreFile entries of a raw document
NombreFileValues(doc) ==
  IF Has(doc, "customMetadata") /\ IsArray(doc.v["customMetadata"])
    THEN {m.v["stringValue"] :
            m \in {e \in {doc.v["customMetadata"].v[j] :
                            j \in 1..Len(doc.v["customMetadata"].v)} :
                     /\ Has(e, "key") /\ e.v["key"] = Str("nombreFile")
                     /\ Has(e, "stringValue") /\ e.v["stringValue"] # Str("")}}
    ELSE {}

\* the customMetadata of a raw document, when it is an array, holds objects
MetadataOfObjects(doc) ==
  Has(doc, "customMetadata") /\ IsArray(doc.v["customMetadata"]) =>
    AllObjects(doc.v["customMetadata"].v)

\* the name of a raw document without a nombreFile entry
PlainNameOf(doc) ==
  IF Has(doc, "displayName") THEN doc.v["displayName"]
  ELSE IF Has(doc, "name") THEN doc.v["name"]
  ELSE Str("Untitled Document")

\* C4: a document whose customMetadata has an entry {key: 'nombreFile',
\* stringValue: X} with X non-empty is normalised to the name X whatever
\* its displayName and name are; a document without such an entry gets its
\* displayName, else its name, else 'Untitled Document'
C4_DocumentName ==
  Done("listDocuments") /\ GotJson /\ RawDocsOf(Data) # <<>>
      /\ AllObjects(RawDocsOf(Data))
      /\ (\A i \in 1..Len(RawDocsOf(Data)) : MetadataOfObjects(RawDocsOf(Data)[i])) =>
    /\ apiResult.ok
    /\ IsArray(apiResult.value)
    /\ Len(apiResult.value.v) = Len(RawDocsOf(Data))
    /\ \A i \in 1..Len(RawDocsOf(Data)) :
         LET raw == RawDocsOf(Data)[i]
             name == Get(apiResult.value.v[i], "name")
         IN IF NombreFileValues(raw) # {}
              THEN name \in NombreFileValues(raw)
              ELSE name = PlainNameOf(raw)

\* the object a chat response carries: the response itself or the first
\* element of an array
ChatObjectOf(data) ==
  IF IsArray(data) THEN (IF Len(data.v) > 0 THEN data.v[1] ELSE Undefined) ELSE data

AnswerFields == <<"output", "text", "answer", "message">>

\* the value of the first answer field, in the order of AnswerFields, among
\* the fields named in chosen; the serialised JSON of the object when
\* chosen names none
FirstAnswer(content, chosen) ==
  LET S == {i \in 1..Len(AnswerFields) : AnswerFields[i] \in chosen}
  IN IF S = {} THEN Str(JSONstringify(content))
     ELSE content.v[AnswerFields[CHOOSE i \in S : \A j \in S : i <= j]]

\* the fields an object has, and those of them with a non-empty value
PresentFields(x) == DOMAIN x.v
NonEmptyFields(x) == {k \in DOMAIN x.v : Truthy(x.v[k])}

\* C5 as claimed: the chat answer is the value of the first field among
\* output, text, answer, message that is present in the response object (or
\* in the first element of a response array), and the serialised JSON of
\* the whole object when none is present
C5_Original ==
  Done("chatWithStore") /\ GotJson /\ IsObject(ChatObjectOf(Data)) =>
    apiResult = Ok(FirstAnswer(ChatObjectOf(Data), PresentFields(ChatObjectOf(Data))))

\* C5 amended: the chat answer is the value of the first field among
\* output, text, answer, message whose value is non-empty in the response
\* object (or in the first element of a response array), a present but
\* empty field being skipped like an absent one, and the serialised JSON
\* of the whole object when no field has a non-empty value
C5_ChatAnswer ==
  Done("chatWithStore") /\ GotJson /\ IsObject(ChatObjectOf(Data)) =>
    apiResult = Ok(FirstAnswer(ChatObjectOf(Data), NonEmptyFields(ChatObjectOf(Data))))

\* an array response whose first element has an empty output and a text:
\* the answer is the text
C5_Witness ==
  /\ Done("chatWithStore")
  /\ GotJson
  /\ IsArray(Data)
  /\ IsObject(ChatObjectOf(Data))
  /\ Has(ChatObjectOf(Data), "output")
  /\ ChatObjectOf(Data).v["output"] = Str("")
  /\ apiResult = Ok(Str("the text"))

\* the item array of a response of shape (3); <<>> for another shape
Shape3ItemsOf(data) ==
  IF IsArray(data) /\ (Len(data.v) = 0 \/ ~Has(data.v[1], "fileSearchStores"))
    THEN data.v
  ELSE IF ~Has(data, "fileSearchStores") /\ Has(data, "data") /\ IsArray(data.v["data"])
    THEN data.v["data"].v
  ELSE <<>>

\* C6: a list-stores response of shape (3) with an item that has neither id
\* nor name is normalised without a throw, and that item becomes a store
\* with a non-empty fallback id
C6_FallbackId ==
  Done("listStores") /\ GotJson /\ Shape3ItemsOf(Data) # <<>>
      /\ AllObjects(Shape3ItemsOf(Data)) =>
    /\ apiResult.ok
    /\ IsArray(apiResult.value)
    /\ Len(apiResult.value.v) = Len(Shape3ItemsOf(Data))
    /\ \A i \in 1..Len(Shape3ItemsOf(Data)) :
         ~Has(Shape3ItemsOf(Data)[i], "id") /\ ~Has(Shape3ItemsOf(Data)[i], "name") =>
           /\ Get(apiResult.value.v[i], "id").t = "string"
           /\ Get(apiResult.value.v[i], "id").v # ""

\* C7: listStores with an empty list-stores endpoint returns the empty
\* collection and issues no HTTP request
C7_ListStoresUnconfigured ==
  apiCall.op = "listStores" /\ apiCall.config["listStoresUrl"] = "" =>
    /\ apiPc = "done"
    /\ apiResult = Ok(Arr(<<>>))
    /\ apiRequests = <<>>

\* listStores was called with the empty configuration and has returned
C7_Witness ==
  /\ Done("listStores")
  /\ apiCall.config = defaultEmptyConfig
  /\ apiResult = Ok(Arr(<<>>))
  /\ apiRequests = <<>>

\* the configuration errors of the adapter
ConfigurationErrors ==
  {Fail("Error", "List Documents URL is not configured"),
   Fail("Error", "Chat URL is not configured")}

\* C9: every operation of the adapter other than listStores, called with
\* its required endpoint empty, issues no HTTP request and fails with a
\* configuration error, which is no network error
C9_UnconfiguredFails ==
  apiCall.op \in Ops \ {"listStores"}
      /\ apiCall.config[EndpointOf(apiCall.op)] = "" =>
    /\ apiRequests = <<>>
    /\ apiPc = "done"
    /\ apiResult \in ConfigurationErrors

\* the parsed JSON values C10 names: null, the empty array, an array whose
\* first element is null or no object, an object whose expected array
\* field is no array
UnexpectedShapes ==
  {Null, Arr(<<>>), Arr(<<Null>>), Arr(<<Num(7)>>),
   Obj([fileSearchStores |-> Str("x")]), Obj([data |-> Str("x")]),
   Obj([documents |-> Num(5)])}

\* C10: for any of these parsed JSON values the normalisation of
\* listStores, listDocuments and chatWithStore returns a value (an empty
\* or default one) and does not throw
C10_NormalisationTotal ==
  apiPc = "done" /\ apiCall.op \in {"listStores", "listDocuments", "chatWithStore"}
      /\ GotJson /\ Data \in UnexpectedShapes =>
    apiResult.ok

(***************************************************************************)
(* The delete dialog and the create form of the store list.                *)
(***************************************************************************)
\* C16: a store leaves the local list only in the step in which a
\* delete-store request for it settles successfully; issuing the request
\* leaves the list as it is, with the store in it; while a request for a
\* store the backend still holds is in flight the store is in the list; a
\* failed request leaves the list unchanged and raises the alert
C16_RemovedOnlyAfterSuccess ==
  /\ [](\A id \in StoreIds :
          deleteCalls[id] > 0 /\ HasStore(serverStores, id) => HasStore(stores, id))
  /\ [][/\ \A id \in StoreIds :
             HasStore(stores, id) /\ ~HasStore(stores', id) =>
               storesEvent' = StoresEvent("delete_ok", id)
        /\ storesEvent'.kind = "confirmDelete" =>
             stores' = stores /\ HasStore(stores, storesEvent'.id)
        /\ storesEvent'.kind = "delete_failed" =>
             stores' = stores /\ storesAlert' = "Failed to delete store"]_vars

\* a delete of Alpha failed and was surfaced, a later one succeeded and
\* removed it
C16_Witness ==
  /\ storesEvent = StoresEvent("delete_ok", StoreA.id)
  /\ ~HasStore(stores, StoreA.id)
  /\ HasStore(stores, StoreB.id)
  /\ storesAlert = "Failed to delete store"

\* the Modal body shows "Verification Failed": docCount === -1
VerificationFailedShown == DeleteModalOpen /\ ~isCheckingDocs /\ docCount = Num(-1)
\* the Modal body shows "Store is not empty": docCount && docCount > 0
StoreNotEmptyShown ==
  /\ DeleteModalOpen /\ ~isCheckingDocs /\ docCount # Num(-1)
  /\ Truthy(docCount) /\ docCount.v > 0

\* C17: when the count check of the store the dialog is open for settles
\* with a failure, the dialog shows "Verification Failed"; that state is
\* not the "Store is not empty" state, the delete button is not offered in
\* it, and no step taken from it issues a delete-store request
C17_VerificationFailedBlocksDelete ==
  /\ [](storesEvent.kind = "countCheck_failed" /\ DeleteModalOpen
          /\ storesEvent.id = storeToDelete.id => VerificationFailedShown)
  /\ [](VerificationFailedShown => ~StoreNotEmptyShown /\ ~confirmDelete_enabled)
  /\ [][VerificationFailedShown =>
          \A id \in StoreIds : deleteCalls'[id] <= deleteCalls[id]]_vars

\* the count check made for Alpha failed and the dialog for Alpha shows the
\* failure
C17_Witness ==
  /\ storesEvent = StoresEvent("countCheck_failed", StoreA.id)
  /\ storeToDelete = StoreA
  /\ VerificationFailedShown
  /\ checked[StoreA.id] = Num(-1)

\* C18: every delete-store request issued carries the id of the store the
\* dialog was open for, and the text typed at that moment was exactly the
\* name the list shows for the store with that id
C18_DeleteNeedsExactName ==
  \A r \in deleteLog :
    /\ r.id = r.store.id
    /\ \E st \in AllStores : st.id = r.id /\ r.typed = getDisplayName(st)

\* a request for Beta, which has no displayName, was issued with its name
\* typed
C18_Witness ==
  \E r \in deleteLog : r.id = StoreB.id /\ r.typed = "Beta" /\ r.store = StoreB

\* C19: the step in which a creation settles successfully issues a fetch of
\* the store list and leaves the local list as it is; the local list
\* changes only in a step in which a list-stores response arrives; the
\* step in which a creation fails issues no fetch and leaves the list
C19_CreateRefetches ==
  [][/\ storesEvent'.kind = "create_ok" /\ storesEvent' # storesEvent =>
          storesLoad' = storesLoad + 1 /\ storesLoading' /\ stores' = stores
     /\ stores' # stores => storesEvent'.kind = "fetchStores_ok"
     /\ storesEvent'.kind = "create_failed" =>
          storesLoad' = storesLoad /\ stores' = stores]_vars

\* a creation failed, a later one succeeded, and the fetch it issued
\* brought the new store into the list
C19_Witness ==
  /\ storesEvent.kind = "fetchStores_ok"
  /\ storesAlert = "Failed to create store"
  /\ creates = 2
  /\ Len(stores) = 3
  /\ stores[3].id = CreatedIds[2]

(***************************************************************************)
(* The startup configuration and the view controller.                      *)
(***************************************************************************)
\* the initialisation effect has just run
Initialised == isInitialized /\ appEvent.kind = "initialise"

\* C11: after the initialisation, whatever is persisted and whatever the
\* built-in default is, the view is Stores if the list-stores endpoint of
\* the resolved configuration is non-empty and Settings otherwise
C11_InitialView ==
  Initialised =>
    view = (IF appConfig["listStoresUrl"] # "" THEN "STORES" ELSE "SETTINGS")

\* C12: a submit of the Settings form is refused only when the form fails
\* validation; after a submit that passed, the submitted configuration is
\* the current one, the persisted slot holds its JSON text and the view is
\* Stores, from whichever view Settings was entered
C12_SaveGoesToStores ==
  /\ appEvent.kind = "rejected" => validate(appEvent.form) # {}
  /\ appEvent.kind = "saved" =>
       /\ validate(appEvent.form) = {}
       /\ appConfig = appEvent.form
       /\ localStorageConfig = Stored(ConfigJson(appEvent.form))
       /\ view = "STORES"

\* Settings was entered from the Chat view, an edited configuration was
\* saved and differs from what was persisted at startup
C12_Witness ==
  /\ appEvent.kind = "saved"
  /\ settingsOrigin = "CHAT"
  /\ view = "STORES"
  /\ appConfig["listStoresUrl"] = "/webhook/list"
  /\ localStorageConfig = Stored(ConfigJson(appConfig))

\* C13: after a store is selected in the Stores view the view is Documents
\* and the selected store is that store; after the back action of the
\* Documents view the view is Stores and no store is selected
C13_SelectAndBack ==
  /\ appEvent.kind = "handleStoreSelect" =>
       view = "DOCUMENTS" /\ selectedStore = appEvent.store /\ selectedStore # NoStore
  /\ appEvent.kind = "goBackToStores" =>
       view = "STORES" /\ selectedStore = NoStore

\* the back action was taken from the Documents view of Beta
C13_Witness ==
  /\ appEvent = AppEvent("goBackToStores", StoreB, defaultEmptyConfig)
  /\ view = "STORES"
  /\ selectedStore = NoStore

\* the clicks of the navbar and of Settings that call setView
NavigationActions == {"nav_brand", "nav_stores", "nav_chat", "nav_settings", "settings_cancel"}

\* C14: after a navigation action that ended in the Stores or the Chat
\* view, the list-stores endpoint of the current configuration is non-empty
C14_NavigationGated ==
  appEvent.kind \in NavigationActions /\ view \in {"STORES", "CHAT"} =>
    appConfig["listStoresUrl"] # ""

\* the fields a persisted value provides: the properties of a JSON object
Provided(saved) == IF saved.kind = "json" THEN DOMAIN SpreadOf(saved.json) ELSE {}

\* some field of the built-in default is not blank
HasBuiltInDefault == \E f \in Fields : Trim(hardcodedConfig[f]) # ""

\* C20 as claimed: each field of the effective configuration comes from the
\* persisted configuration if it provides the field, else from the
\* built-in default if that has it, else is empty; with unparseable
\* persisted data the effective configuration is the built-in default, or
\* all-empty when there is none
C20_Original ==
  Initialised =>
    IF localStorageConfig.kind = "unparseable"
      THEN appConfig = (IF HasBuiltInDefault THEN hardcodedConfig ELSE defaultEmptyConfig)
    ELSE \A f \in Fields :
           appConfig[f] =
             IF f \in Provided(localStorageConfig)
               THEN SpreadOf(localStorageConfig.json)[f].v
             ELSE IF HasBuiltInDefault THEN hardcodedConfig[f]
             ELSE ""

\* C20 amended: persisted data that parses is merged over the all-empty
\* configuration only: each field has its persisted value if the persisted
\* value provides it and is empty otherwise; with nothing persisted, or
\* with persisted data that fails to parse, the effective configuration is
\* the built-in default if any of its fields is not blank, and all-empty
\* otherwise
C20_EffectiveConfig ==
  Initialised =>
    IF localStorageConfig.kind = "json"
      THEN \A f \in Fields :
             appConfig[f] =
               IF f \in Provided(localStorageConfig)
                 THEN SpreadOf(localStorageConfig.json)[f].v
               ELSE ""
    ELSE appConfig = (IF HasBuiltInDefault THEN hardcodedConfig ELSE defaultEmptyConfig)

\* the persisted object has a list-stores endpoint and no chat endpoint, the
\* built-in default has one: the chat endpoint of the effective
\* configuration is empty
C20_Witness ==
  /\ Initialised
  /\ hardcodedConfig = HARDCODED_CONFIG
  /\ localStorageConfig.kind = "json"
  /\ "listStoresUrl" \in Provided(localStorageConfig)
  /\ "chatDocUrl" \notin Provided(localStorageConfig)
  /\ appConfig["chatDocUrl"] = ""
  /\ appConfig["listStoresUrl"] # ""

(***************************************************************************)
(* The transcript of the Chat view.                                        *)
(***************************************************************************)
\* next is prev with one message of a user or of the assistant added at
\* its end
AppendsOne(prev, next) ==
  /\ Len(next) = Len(prev) + 1
  /\ SubSeq(next, 1, Len(prev)) = prev
  /\ next[Len(next)].role \in {"user", "assistant"}

\* C15: in a step that leaves the selected store of Chat as it is the
\* transcript stays as it is or gets one message added at its end; a step
\* that changes the selected store leaves the transcript empty
C15_TranscriptAppendOnly ==
  [][IF selectedStoreId' = selectedStoreId
       THEN messages' = messages \/ AppendsOne(messages, messages')
       ELSE messages' = <<>>]_vars

\* a message was sent to Alpha and answered, the selection changed to Beta,
\* and a message sent to Beta got an empty answer: the transcript holds the
\* two messages of Beta only
C15_Witness ==
  /\ chatStores = <<StoreA, StoreB>>
  /\ selectedStoreId = StoreB.id
  /\ sends = 2
  /\ ~chatLoading
  /\ messages = <<ChatMessage("user", "hello"),
                  ChatMessage("assistant", "No response received")>>

(***************************************************************************)
(* The configuration holder.                                               *)
(***************************************************************************)
\* an absolute URL or a root-relative path, as validate() of Settings
\* accepts them
WellFormedUrl(val) == startsWith(val, "/") \/ parsesAsURL(val)

\* C21: once App is initialised every field of the current configuration
\* other than the chat endpoint is empty or a well-formed URL; and a submit
\* of a Settings form with such a field empty or malformed is rejected and
\* leaves the current configuration, the persisted slot and the view
C21_ConfigWellFormed ==
  /\ [](isInitialized =>
          \A f \in Fields \ {"chatDocUrl"} :
            appConfig[f] = "" \/ WellFormedUrl(appConfig[f]))
  /\ [][isInitialized /\ view = "SETTINGS" /\ appEvent'.kind \in {"saved", "rejected"}
          /\ appEvent' # appEvent
          /\ (\E f \in Fields \ {"chatDocUrl"} :
                formData[f] = "" \/ ~WellFormedUrl(formData[f])) =>
        /\ appEvent'.kind = "rejected"
        /\ UNCHANGED <<appConfig, localStorageConfig, view>>]_vars

(***************************************************************************)
(* The adapter: the body and the failure of a response.                    *)
(***************************************************************************)
\* the operations that read the body of their response as JSON
JsonReaders == {"listStores", "listDocuments", "chatWithStore"}

\* the call has ended after its fetch was answered 2xx with this kind of
\* body
AnsweredWith(text) ==
  /\ apiPc = "done"
  /\ apiOutcome.kind = "response"
  /\ apiOutcome.ok
  /\ apiOutcome.body.text = text

\* C22: a list-stores, list-documents or chat call answered 2xx with an
\* empty body returns a value, the empty list for the two listings; one
\* answered 2xx with a non-empty body that is no JSON fails with the parse
\* error of the adapter
C22_EmptyAndInvalidBody ==
  apiCall.op \in JsonReaders =>
    /\ AnsweredWith("empty") =>
         /\ apiResult.ok
         /\ apiCall.op \in {"listStores", "listDocuments"} => apiResult = Ok(Arr(<<>>))
    /\ AnsweredWith("invalid") => apiResult = Fail("Error", "Invalid JSON response")

\* the network error of the adapter, with its remediation message
NetworkError ==
  Fail("Error", "Network error: Unable to connect. Please check CORS settings on your webhook.")

\* C23: a call of any operation whose fetch was rejected by the network
\* layer ends with the network error of the adapter, which is neither an
\* HTTP error nor the TypeError of fetch
C23_NetworkFailure ==
  apiPc = "done" /\ apiCall.op \in Ops /\ apiOutcome.kind = "rejected" =>
    apiResult = NetworkError

(***************************************************************************)
(* The count badges of the store list.                                     *)
(***************************************************************************)
\* the step sets stores: a list-stores response arrives, or a delete-store
\* request settles successfully
ListRefreshed ==
  \/ storesLoad' = storesLoad - 1 /\ storesEvent'.kind = "fetchStores_ok"
  \/ storesEvent'.kind = "delete_ok"
       /\ \E id \in StoreIds : deleteCalls'[id] = deleteCalls[id] - 1

\* C24 as claimed: every refresh of the list issues a count request for
\* every store of the new list, whatever is in flight
C24_Original ==
  [][ListRefreshed =>
       \A id \in StoreIds :
         HasStore(stores', id) => countCalls'[id] = countCalls[id] + 1]_vars

\* C24 amended: every refresh of the list issues a count request for every
\* store of the new list whose count is not marked as loading, and for no
\* other store; a store whose count is loading is left out, so that no
\* store has two count requests in flight
C24_CountsRequested ==
  /\ [][ListRefreshed =>
          \A id \in StoreIds :
            /\ countCalls'[id] =
                 IF HasStore(stores', id) /\ ~loadingCounts[id]
                   THEN countCalls[id] + 1 ELSE countCalls[id]
            /\ loadingCounts'[id] = (loadingCounts[id] \/ HasStore(stores', id))]_vars
  /\ [](\A id \in StoreIds : countCalls[id] = (IF loadingCounts[id] THEN 1 ELSE 0))

\* the list was fetched again after a creation while the count of Alpha was
\* still loading: Beta, whose count had arrived, and the new store have a
\* request in flight, and Alpha has the one it had
C24_Witness ==
  /\ storesEvent.kind = "fetchStores_ok"
  /\ Len(stores) = 3
  /\ docCounts[StoreA.id] = Undefined
  /\ docCounts[StoreB.id] = Num(0)
  /\ \A i \in 1..3 : countCalls[stores[i].id] = 1

\* C25: the rollback of a failed document deletion puts back no document
\* whose own deletion has succeeded remotely: every document the rollback
\* adds to docs is still held by the backend
C25_RollbackKeepsOtherDeletes ==
  [][docEvent'.kind = "delete_failed" /\ docDeletes' # docDeletes =>
       \A i \in 1..Len(docs') :
         InSeq(docs'[i], docs) \/ InSeq(docs'[i], serverDocs')]_vars

(***************************************************************************)
(* A list response that was under way while a store was deleted.           *)
(***************************************************************************)
\* a delete-store request of the store has succeeded
Deleted(id) ==
  /\ \E e \in deleteLog : e.id = id
  /\ deleteCalls[id] = 0
  /\ ~HasStore(serverStores, id)

\* C26: a store whose deletion has succeeded and which the local list no
\* longer holds is not put back by the arrival of a list response
C26_DeletedStaysAway ==
  [][storesLoad' = storesLoad - 1 =>
       \A id \in StoreIds :
         Deleted(id) /\ ~HasStore(stores, id) => ~HasStore(stores', id)]_vars

(***************************************************************************)
(* The chat requests and the transcript.                                   *)
(***************************************************************************)
\* C27: every message of the assistant in the transcript comes right after
\* a message of the user in the same transcript, so that an answer arriving
\* after the selected store changed is not added to the new transcript
C27_AnswerFollowsQuestion ==
  \A i \in 1..Len(messages) :
    messages[i].role = "assistant" =>
      i > 1 /\ messages[i - 1].role = "user"

\* the number of messages of the assistant in a transcript
RECURSIVE AssistantCount(_)
AssistantCount(list) ==
  IF list = <<>> THEN 0
  ELSE AssistantCount(Tail(list))
         + (IF Head(list).role = "assistant" THEN 1 ELSE 0)

\* C30: when every chat request completes, a send is followed in the end by
\* loading back to false; the step that ends the request adds exactly one
\* message of the assistant at the end of the transcript and no other step
\* adds one; and while a request is in flight no other request is issued
C30_SendCompletesOnce ==
  /\ chatLoading ~> ~chatLoading
  /\ [](chatLoading <=> chatCall # NoChatCall)
  /\ [][IF chatLoading /\ ~chatLoading'
          THEN /\ AppendsOne(messages, messages')
               /\ messages'[Len(messages')].role = "assistant"
          ELSE AssistantCount(messages') <= AssistantCount(messages)]_vars
  /\ [][chatLoading => sends' = sends /\ (chatCall' = chatCall \/ ~chatLoading')]_vars

\* one message was sent and its request has completed with an answer
C30_Witness ==
  /\ sends = 1
  /\ ~chatLoading
  /\ chatCall = NoChatCall
  /\ Len(messages) = 2
  /\ messages[1].role = "user"
  /\ messages[2] = ChatMessage("assistant", "The answer")

(***************************************************************************)
(* The Documents view and the selected store.                              *)
(***************************************************************************)
\* C28: whenever the view is Documents a store is selected
C28_DocumentsHasStore ==
  view = "DOCUMENTS" => selectedStore # NoStore

\* the Documents view of Beta, entered after a configuration was edited and
\* saved from the Settings form
C28_Witness ==
  /\ view = "DOCUMENTS"
  /\ selectedStore = StoreB
  /\ edits > 0
  /\ localStorageConfig = Stored(ConfigJson(appConfig))
  /\ appEvent.kind = "handleStoreSelect"

(***************************************************************************)
(* A delete request that settles under the dialog of another store.        *)
(***************************************************************************)
\* C29: when the delete-store request of one store settles while the delete
\* dialog is open for another store, the dialog stays open for that store
\* with the text typed into it and the result of its count check
C29_OtherDialogUntouched ==
  [][\A id \in StoreIds :
       /\ deleteCalls'[id] = deleteCalls[id] - 1
       /\ storeToDelete # NoStore
       /\ storeToDelete.id # id
       => UNCHANGED <<storeToDelete, deleteConfirmationText, docCount>>]_vars

====
